---- MODULE Spec2Model ----
(***************************************************************************)
(* TwistedDebate V4: the debate orchestration engine of                    *)
(* app/facilitator.py (Facilitator.run_debate and its five format          *)
(* handlers), with the generator client of utils/ollama_client.py as the   *)
(* only source of nondeterminism.                                          *)
(*                                                                         *)
(* One run of run_debate is one behaviour.  A turn is two steps: the step   *)
(* that builds the prompt and issues the generation call, and the step in  *)
(* which the call returns and the entry is appended.  Timestamps are not   *)
(* modelled (no code reads them).                                          *)
(*                                                                         *)
(* Spec is the engine with up to MaxRounds rounds and failing calls;       *)
(* LongSpec is the engine with up to MaxLongRounds rounds and no failing   *)
(* call; HelperSpec applies _analyze_debate and _extract_key_statements to *)
(* transcripts of literal texts; ServerSpec is analyze_debate of           *)
(* app/server.py; TurnSpec is generate_turn of app/server.py, and          *)
(* AllTurnsSpec the engine and generate_turn together; ParamSpec is        *)
(* get_ollama_params of app/config.py; TwoRunSpec is two runs of the       *)
(* engine on one Facilitator with their steps interleaved; RepeatSpec is   *)
(* run_debate called twice, one call after the other, with the same        *)
(* arguments.                                                              *)
(***************************************************************************)
EXTENDS Integers, Sequences, FiniteSets, TLC

VARIABLES
    format,             \* run_debate argument: the DebateFormat
    participants,       \* run_debate argument: sequence of ParticipantConfig
    max_iterations,     \* run_debate argument
    pc,                 \* position in the running handler
    iteration,          \* the handlers' loop variable (Unbound before the loop)
    idx,                \* position of the inner for loop (1-based)
    messages,           \* the handlers' local list `messages`
    key_statements,     \* the handlers' local list `key_statements`
    opponent_statement, \* one-to-one local
    previous_context,   \* one-to-one local
    pending,            \* <<>> or <<request>>: the generation call in flight
    ncalls,             \* generation calls issued so far
    nunusual,           \* calls so far whose reply was not an ordinary text
    replies,            \* what each call so far ended in, in call order
    result,             \* <<>> or <<dict returned by run_debate>>
    raised,             \* "none" or the exception run_debate propagated
    analyzed,           \* the calls of _analyze_debate so far: their arguments
    gain,               \* run_debate argument: the intensity
    gain_to_params,     \* config.GAIN_TO_PARAMS, the module's table
    suspended           \* <<>> or <<the other run on the same Facilitator>>,
                        \* in RepeatSpec <<what the earlier run returned>>

inputs == <<format, participants, max_iterations, gain>>
shared == <<gain_to_params, suspended>>
locals == <<iteration, idx, messages, key_statements, opponent_statement,
            previous_context>>
vars == <<format, participants, max_iterations, pc, iteration, idx, messages,
          key_statements, opponent_statement, previous_context, pending,
          ncalls, nunusual, replies, result, raised, analyzed, gain,
          gain_to_params, suspended>>

----------------------------------------------------------------------------
(* Bounds of the model *)

MaxParticipants == 3
MaxRounds == 3
MaxUnusual == 1
MaxLongRounds == 6
MaxEntries == 2
MaxIndex == 11
MaxPrevious == 4
MaxGainExcess == 3
MaxTwoRounds == 2

(* Program constants *)

MAX_DEBATE_ITERATIONS == 3
CONVERGENCE_THRESHOLD == 8
ContextBudget == 300
SummaryBudget == 200
KeyStatementMinLen == 20
KeyStatementMaxLen == 100
DEFAULT_GAIN == 5
MIN_GAIN == 1
MAX_GAIN == 10
RETRY_ATTEMPTS == 3

\* config.GAIN_TO_PARAMS; temperature and top_p are held in hundredths.
GAIN_TO_PARAMS ==
    [g \in MIN_GAIN..MAX_GAIN |->
        [temperature |-> 20 + 10 * g,
         top_p |-> <<70, 75, 80, 85, 90, 92, 94, 95, 97, 99>>[g],
         top_k |-> <<20, 25, 30, 35, 40, 45, 50, 60, 70, 80>>[g]]]

----------------------------------------------------------------------------
(* Data *)

ONE_TO_ONE == "one-to-one"
CROSS_EXAM == "cross-exam"
MANY_ON_ONE == "many-on-one"
PANEL == "panel"
ROUND_ROBIN == "round-robin"

DebateFormat == {ONE_TO_ONE, CROSS_EXAM, MANY_ON_ONE, PANEL, ROUND_ROBIN}

USER == "USER"
Models == {USER, "gemma3:27b"}

Topic == "topic"

Labels == <<"P1", "P2", "P3", "P4", "P5", "P6">>
Roles == <<"role1", "role2", "role3", "role4", "role5", "role6">>

\* The i-th participant of a request; mode and tone only reach the prompt text.
ParticipantConfig(i, m) == [role |-> Roles[i], label |-> Labels[i], model |-> m]

ParticipantLists ==
    UNION { { [i \in 1..n |-> ParticipantConfig(i, ms[i])] : ms \in [1..n -> Models] }
            : n \in 0..MaxParticipants }

Unbound == -1

Min(a, b) == IF a <= b THEN a ELSE b
Max(a, b) == IF a >= b THEN a ELSE b

\* A window that is the whole list whatever n is.
PySuffix_WholeList(s, n) == s

\* Python s[-n:] : the last n elements, and the whole list when n = 0.
PySuffix(s, n) ==
    IF n = 0 THEN s ELSE SubSeq(s, Max(1, Len(s) - n + 1), Len(s))

----------------------------------------------------------------------------
(* Texts.  A text is a record; two texts are the same string iff the       *)
(* records are equal.  The reply to the n-th call is text number n.        *)

GeneratedText(n) == [kind |-> "generated", n |-> n, reason |-> "none"]
EmptyText == [kind |-> "empty", n |-> 0, reason |-> "none"]
AwaitingUserInput == [kind |-> "awaiting_user", n |-> 0, reason |-> "none"]
AwaitingModeratorOpening == [kind |-> "awaiting_moderator", n |-> 0, reason |-> "none"]
\* f"[Error generating response: {str(e)}]"
ErrorPlaceholder(reason) == [kind |-> "error", n |-> 0, reason |-> reason]
OpeningStatementMarker == [kind |-> "opening_marker", n |-> 0, reason |-> "none"]

\* A text given by its layout: `head` characters, none of them a period, then,
\* if `period`, a period and `rest` more characters.
LiteralText(head, period, rest) ==
    [kind |-> "literal", n |-> 0, reason |-> "none",
     head |-> head, period |-> period, rest |-> rest]

IsPlaceholderText(c) == c.kind \in {"awaiting_user", "awaiting_moderator"}

\* DebateMessage(speaker, content, role, iteration)
DebateMessage(speaker, content, role, it) ==
    [speaker |-> speaker, content |-> content, role |-> role, iteration |-> it]

\* TurnEntry with the inner loop's position written where the round belongs.
TurnEntry_InnerIndex(p, text, it) == DebateMessage(p.label, text, p.role, idx)

\* The entry of a participant's turn:
\* DebateMessage(speaker=p.label, content=text, role=p.role, iteration=it)
TurnEntry(p, text, it) == DebateMessage(p.label, text, p.role, it)

\* The entry that stands for a turn the user has to take.
PendingEntry(p, text, it) == DebateMessage(p.label, text, "user-pending", it)

----------------------------------------------------------------------------
(* The generator client *)

\* What the HTTP request of OllamaClient.generate can end in.
\* A 404 raises the same exception as a refused connection and is not told
\* apart from it here.
TransportOutcomes ==
    {"text", "empty", "connection_error", "timeout", "request_error"}

\* OllamaClient.generate: the text, or the exception it raises.
Generate(outcome, n) ==
    CASE outcome = "text" ->
            [ok |-> TRUE, output |-> GeneratedText(n), exc |-> "none", msg |-> "none"]
      [] outcome = "empty" ->
            [ok |-> TRUE, output |-> EmptyText, exc |-> "none", msg |-> "none"]
      [] outcome = "connection_error" ->
            [ok |-> FALSE, output |-> EmptyText, exc |-> "OllamaConnectionError",
             msg |-> "Cannot connect to Ollama"]
      [] outcome = "timeout" ->
            [ok |-> FALSE, output |-> EmptyText, exc |-> "OllamaGenerationError",
             msg |-> "Generation timed out"]
      [] outcome = "request_error" ->
            [ok |-> FALSE, output |-> EmptyText, exc |-> "OllamaGenerationError",
             msg |-> "Generation failed"]

\* _generate_with_params without its except clause: the exception goes up.
GenerateWithParams_NoCatch(outcome, n) ==
    LET r == Generate(outcome, n)
    IN  IF r.ok
        THEN [exc |-> "none", text |-> r.output]
        ELSE [exc |-> r.exc, text |-> EmptyText]

\* _generate_with_params with an except clause that returns "".
GenerateWithParams_SilentFailure(outcome, n) ==
    LET r == Generate(outcome, n)
    IN  IF r.ok
        THEN [exc |-> "none", text |-> r.output]
        ELSE [exc |-> "none", text |-> EmptyText]

\* Facilitator._generate_with_params: what the caller gets, a text or an
\* exception.  The except clause turns every exception into a placeholder.
GenerateWithParams(outcome, n) ==
    LET r == Generate(outcome, n)
    IN  IF r.ok
        THEN [exc |-> "none", text |-> r.output]
        ELSE [exc |-> "none", text |-> ErrorPlaceholder(r.msg)]

----------------------------------------------------------------------------
(* Helpers of the facilitator *)

\* Facilitator._build_context
BuildContext(msgs) ==
    IF msgs = <<>>
    THEN [kind |-> "no_previous_context", entries |-> <<>>]
    ELSE [kind |-> "entries",
          entries |-> [i \in 1..Len(msgs) |->
                          [speaker |-> msgs[i].speaker,
                           content |-> msgs[i].content,
                           cut |-> ContextBudget]]]

EmptyString == [kind |-> "empty_string", entries |-> <<>>]

\* len(content.split('.')[0] + '.') for the texts of the model
FirstSentenceLen(c) ==
    CASE c.kind = "generated" -> 120
      [] c.kind = "empty" -> 1
      [] c.kind = "awaiting_user" -> 22
      [] c.kind = "awaiting_moderator" -> 29
      [] c.kind = "error" -> 50
      [] c.kind = "literal" -> c.head + 1
      [] OTHER -> 1

KeyStatement(msg, it) ==
    [speaker |-> msg.speaker,
     text |-> [of |-> msg.content,
               len |-> Min(FirstSentenceLen(msg.content), KeyStatementMaxLen)],
     iteration |-> it]

\* _extract_key_statements keeping every entry whose first sentence is
\* longer than half the threshold.
RECURSIVE ExtractKeyStatements_HalfThreshold(_, _)
ExtractKeyStatements_HalfThreshold(msgs, it) ==
    IF msgs = <<>> THEN <<>>
    ELSE (IF 2 * FirstSentenceLen(Head(msgs).content) > KeyStatementMinLen
          THEN <<KeyStatement(Head(msgs), it)>>
          ELSE <<>>) \o ExtractKeyStatements_HalfThreshold(Tail(msgs), it)

\* Facilitator._extract_key_statements
RECURSIVE ExtractKeyStatements(_, _)
ExtractKeyStatements(msgs, it) ==
    IF msgs = <<>> THEN <<>>
    ELSE (IF FirstSentenceLen(Head(msgs).content) > KeyStatementMinLen
          THEN <<KeyStatement(Head(msgs), it)>>
          ELSE <<>>) \o ExtractKeyStatements(Tail(msgs), it)

\* _analyze_debate with `agreementScore >= 7` for CONVERGING.
AnalyzeDebate_ConvergingFromSeven(msgs, it) ==
    LET score == Min(50 + it * 5, 100)
    IN  [iteration |-> it,
         status |-> IF it < MAX_DEBATE_ITERATIONS THEN "In Progress" ELSE "Completed",
         agreementScore |-> score,
         convergenceStatus |-> IF score >= 70 THEN "Converging" ELSE "Diverging",
         emotionalSensitivity |-> "Medium",
         biasLevel |-> "Neutral",
         topicDrift |-> "Low"]

\* _analyze_debate with a score that drops with every entry that holds an
\* error placeholder.
AnalyzeDebate_CountsErrors(msgs, it) ==
    LET errors == Len(SelectSeq(msgs, LAMBDA m : m.content.kind = "error"))
        score == Max(0, Min(50 + it * 5, 100) - 10 * errors)
    IN  [iteration |-> it,
         status |-> IF it < MAX_DEBATE_ITERATIONS THEN "In Progress" ELSE "Completed",
         agreementScore |-> score,
         convergenceStatus |-> IF score > 70 THEN "Converging" ELSE "Diverging",
         emotionalSensitivity |-> "Medium",
         biasLevel |-> "Neutral",
         topicDrift |-> "Low"]

\* Facilitator._analyze_debate; agreementScore is held in tenths.
AnalyzeDebate(msgs, it) ==
    LET score == Min(50 + it * 5, 100)
    IN  [iteration |-> it,
         status |-> IF it < MAX_DEBATE_ITERATIONS THEN "In Progress" ELSE "Completed",
         agreementScore |-> score,
         convergenceStatus |-> IF score > 70 THEN "Converging" ELSE "Diverging",
         emotionalSensitivity |-> "Medium",
         biasLevel |-> "Neutral",
         topicDrift |-> "Low"]

\* The threshold compared with `>`.
ConvergenceReached_StrictlyAbove(metrics) ==
    IF metrics.agreementScore # 0
    THEN metrics.agreementScore > CONVERGENCE_THRESHOLD * 10
    ELSE FALSE

\* metrics.agreementScore >= config.CONVERGENCE_THRESHOLD if metrics.agreementScore else False
ConvergenceReached(metrics) ==
    IF metrics.agreementScore # 0
    THEN metrics.agreementScore >= CONVERGENCE_THRESHOLD * 10
    ELSE FALSE

\* The result dict with the participants in reverse order.
DebateResult_ReversedParticipants(fmt, metrics, ks, completed, conv) ==
    [topic |-> Topic, format |-> fmt,
     participants |-> [i \in 1..Len(participants) |->
                          participants[Len(participants) + 1 - i]],
     messages |-> messages, metrics |-> metrics, keyStatements |-> ks,
     completed |-> completed, convergenceReached |-> conv]

\* The dict a handler returns: `"participants": participants` is the list
\* run_debate was handed.
DebateResult(fmt, metrics, ks, completed, conv) ==
    [topic |-> Topic, format |-> fmt, participants |-> participants,
     messages |-> messages, metrics |-> metrics, keyStatements |-> ks,
     completed |-> completed, convergenceReached |-> conv]

----------------------------------------------------------------------------
(* Steps shared by the handlers *)

\* The request of a generation call: the model it goes to and the parts of
\* the prompt that come from the transcript.
Request(p, template, context, other) ==
    [model |-> p.model, speaker |-> p.label, template |-> template,
     context |-> context, other |-> other]

\* The call issued RETRY_ATTEMPTS times.
Issue_ThreeAttempts(req, next) ==
    /\ pending' = <<req>>
    /\ ncalls' = ncalls + RETRY_ATTEMPTS
    /\ pc' = next

Issue(req, next) ==
    /\ pending' = <<req>>
    /\ ncalls' = ncalls + 1
    /\ pc' = next

Raise(exc) ==
    /\ raised' = exc
    /\ pc' = "raised"

Return(res) ==
    /\ result' = <<res>>
    /\ pc' = "done"

\* `for iteration in range(1, max_iterations + 1)`: the next value, or the
\* exit of the loop, which leaves iteration as it is.
ForIteration(body, exit) ==
    LET nxt == IF iteration = Unbound THEN 1 ELSE iteration + 1
    IN  IF nxt <= max_iterations
        THEN /\ iteration' = nxt
             /\ idx' = 1
             /\ pc' = body
        ELSE /\ UNCHANGED <<iteration, idx>>
             /\ pc' = exit

\* _analyze_debate handed the last entries only, messages[-4:].
AnalyzeCall_LastBatch(msgs, it) ==
    analyzed' = Append(analyzed, [messages |-> PySuffix(msgs, 4), iteration |-> it])

\* `metrics = self._analyze_debate(topic, messages, it)`: the call, with the
\* transcript and the round index it is handed.
AnalyzeCall(msgs, it) ==
    analyzed' = Append(analyzed, [messages |-> msgs, iteration |-> it])

\* The reply of the call in flight, as _generate_with_params hands it on.
Reply(outcome) == GenerateWithParams(outcome, ncalls)

MayReply(outcome) ==
    /\ outcome \in TransportOutcomes
    /\ outcome = "text" \/ nunusual < MaxUnusual

Count(outcome) ==
    /\ nunusual' = nunusual + (IF outcome = "text" THEN 0 ELSE 1)
    /\ replies' = Append(replies, outcome)

----------------------------------------------------------------------------
Init ==
    /\ format \in DebateFormat
    /\ participants \in ParticipantLists
    /\ max_iterations \in 0..MaxRounds
    /\ pc = "run_debate"
    /\ iteration = Unbound
    /\ idx = 1
    /\ messages = <<>>
    /\ key_statements = <<>>
    /\ opponent_statement = EmptyText
    /\ previous_context = EmptyString
    /\ pending = <<>>
    /\ ncalls = 0
    /\ nunusual = 0
    /\ replies = <<>>
    /\ result = <<>>
    /\ raised = "none"
    /\ analyzed = <<>>
    /\ gain = DEFAULT_GAIN
    /\ gain_to_params = GAIN_TO_PARAMS
    /\ suspended = <<>>

\* Facilitator.run_debate: route to the handler of the format.
RunDebate ==
    /\ pc = "run_debate"
    /\ pc' = CASE format = ONE_TO_ONE -> "o2o_start"
               [] format = CROSS_EXAM -> "ce_start"
               [] format = MANY_ON_ONE -> "mo_start"
               [] format = PANEL -> "pn_start"
               [] format = ROUND_ROBIN -> "rr_start"
    /\ UNCHANGED <<inputs, shared, analyzed, locals, pending, ncalls, nunusual, replies, result,
                   raised>>

----------------------------------------------------------------------------
(* One-to-one: Facilitator._run_one_to_one_debate *)

debater1 == participants[1]
debater2 == participants[2]
has_user == debater1.model = USER \/ debater2.model = USER

OneToOneStart ==
    /\ pc = "o2o_start"
    /\ IF Len(participants) # 2
       THEN /\ Raise("ValueError")
            /\ UNCHANGED <<inputs, shared, analyzed, locals, pending, ncalls, nunusual, replies,
                           result>>
       ELSE /\ messages' = <<>>
            /\ key_statements' = <<>>
            /\ previous_context' = EmptyString
            /\ opponent_statement' = EmptyText
            /\ pc' = "o2o_loop"
            /\ UNCHANGED <<inputs, shared, analyzed, iteration, idx, pending, ncalls, nunusual,
                           replies, result, raised>>

OneToOneLoop ==
    /\ pc = "o2o_loop"
    /\ ForIteration("o2o_turn1", "o2o_finish")
    /\ UNCHANGED <<inputs, shared, analyzed, messages, key_statements, opponent_statement,
                   previous_context, pending, ncalls, nunusual, replies,
                   result, raised>>

\* `opponent_statement or "(Opening statement)"`
OpponentStatementShown(s) == IF s = EmptyText THEN OpeningStatementMarker ELSE s

\* `continue` where the code has `break`.
AfterUserTurn_Continue == "o2o_loop"

\* `break`: where the run goes after the placeholder of a user's turn.
AfterUserTurn == "o2o_finish"

OneToOneTurn(at, speaker, recv) ==
    /\ pc = at
    /\ IF speaker.model # USER
       THEN /\ Issue(Request(speaker, "ONE_TO_ONE_DEBATE_PROMPT", previous_context,
                             OpponentStatementShown(opponent_statement)), recv)
            /\ UNCHANGED <<inputs, shared, analyzed, locals, nunusual, replies, result, raised>>
       ELSE /\ messages' = Append(messages,
                    PendingEntry(speaker, AwaitingUserInput, iteration))
            /\ pc' = AfterUserTurn
            /\ UNCHANGED <<inputs, shared, analyzed, iteration, idx, key_statements,
                           opponent_statement, previous_context, pending, ncalls,
                           nunusual, replies, result, raised>>

OneToOneTurn1 == OneToOneTurn("o2o_turn1", debater1, "o2o_recv1")
OneToOneTurn2 == OneToOneTurn("o2o_turn2", debater2, "o2o_recv2")

OneToOneRecv1 ==
    /\ pc = "o2o_recv1"
    /\ \E outcome \in TransportOutcomes :
        /\ MayReply(outcome)
        /\ Count(outcome)
        /\ LET r == Reply(outcome)
               msgs == Append(messages,
                          TurnEntry(debater1, r.text, iteration))
           IN  IF r.exc # "none"
               THEN /\ Raise(r.exc)
                    /\ UNCHANGED <<locals>>
               ELSE /\ messages' = msgs
                    /\ opponent_statement' = r.text
                    /\ previous_context' = BuildContext(PySuffix(msgs, 3))
                    /\ pc' = "o2o_turn2"
                    /\ UNCHANGED <<iteration, idx, key_statements, raised>>
    /\ pending' = <<>>
    /\ UNCHANGED <<inputs, shared, analyzed, ncalls, result>>

OneToOneRecv2 ==
    /\ pc = "o2o_recv2"
    /\ \E outcome \in TransportOutcomes :
        /\ MayReply(outcome)
        /\ Count(outcome)
        /\ LET r == Reply(outcome)
               msgs == Append(messages,
                          TurnEntry(debater2, r.text, iteration))
           IN  IF r.exc # "none"
               THEN /\ Raise(r.exc)
                    /\ UNCHANGED <<locals>>
               ELSE /\ messages' = msgs
                    /\ opponent_statement' = r.text
                    /\ previous_context' = BuildContext(PySuffix(msgs, 3))
                    /\ key_statements' =
                          IF iteration % 2 = 0
                          THEN key_statements \o
                               ExtractKeyStatements(PySuffix(msgs, 4), iteration)
                          ELSE key_statements
                    /\ pc' = "o2o_loop"
                    /\ UNCHANGED <<iteration, idx, raised>>
    /\ pending' = <<>>
    /\ UNCHANGED <<inputs, shared, analyzed, ncalls, result>>

\* The lines after the loop: they read `iteration`, which is unbound when the
\* loop body never ran.
OneToOneFinish ==
    /\ pc = "o2o_finish"
    /\ IF iteration = Unbound
       THEN /\ Raise("UnboundLocalError")
            /\ UNCHANGED <<result, analyzed>>
       ELSE LET metrics == AnalyzeDebate(messages, iteration)
            IN  /\ AnalyzeCall(messages, iteration)
                /\ Return(DebateResult(ONE_TO_ONE, metrics, key_statements,
                              ~has_user \/ iteration >= max_iterations,
                              ConvergenceReached(metrics)))
                /\ UNCHANGED <<raised>>
    /\ UNCHANGED <<inputs, shared, locals, pending, ncalls, nunusual, replies>>

----------------------------------------------------------------------------
(* What every handler does when a generation call returns: the text        *)
(* becomes an entry of the speaker, or the exception goes up.              *)

NoContext == [kind |-> "absent", entries |-> <<>>]

\* Facilitator._generate_with_mode_tone(f"State your position on: {topic}", ...)
InitialStatementRequest(p) ==
    Request(p, "MODE_PROMPTS", NoContext, <<"State your position on:", Topic>>)

\* f"{msg.speaker}: {msg.content}" for each msg, joined
SpeakerAndContent(msgs) ==
    [i \in 1..Len(msgs) |-> [speaker |-> msgs[i].speaker, content |-> msgs[i].content]]

\* f"{msg.speaker}: {msg.content[:200]}..." for each msg, joined
SpeakerAndContentCut(msgs, cut) ==
    [i \in 1..Len(msgs) |->
        [speaker |-> msgs[i].speaker, content |-> msgs[i].content, cut |-> cut]]

----------------------------------------------------------------------------
(* Cross-examination: Facilitator._run_cross_examination *)

\* The examiner read from the examinee's position.
examiner_Swapped == participants[2]

examiner == participants[1]
examinee == participants[2]

CrossExamStart ==
    /\ pc = "ce_start"
    /\ IF Len(participants) # 2
       THEN /\ Raise("ValueError")
            /\ UNCHANGED <<pending, ncalls>>
       ELSE /\ Issue(InitialStatementRequest(examinee), "ce_recv_initial")
            /\ UNCHANGED <<raised>>
    /\ UNCHANGED <<inputs, shared, analyzed, locals, nunusual, replies, result>>

CrossExamRecvInitial ==
    /\ pc = "ce_recv_initial"
    /\ \E outcome \in TransportOutcomes :
        /\ MayReply(outcome)
        /\ Count(outcome)
        /\ LET r == Reply(outcome)
           IN  IF r.exc # "none"
               THEN /\ Raise(r.exc)
                    /\ UNCHANGED <<messages>>
               ELSE /\ messages' = Append(messages,
                          TurnEntry(examinee, r.text, 0))
                    /\ pc' = "ce_loop"
                    /\ UNCHANGED <<raised>>
    /\ pending' = <<>>
    /\ UNCHANGED <<inputs, shared, analyzed, iteration, idx, key_statements, opponent_statement,
                   previous_context, ncalls, result>>

CrossExamLoop ==
    /\ pc = "ce_loop"
    /\ ForIteration("ce_ask", "ce_finish")
    /\ UNCHANGED <<inputs, shared, analyzed, messages, key_statements, opponent_statement,
                   previous_context, pending, ncalls, nunusual, replies,
                   result, raised>>

\* The examiner's question: other_perspective is messages[-1].content.
CrossExamAsk ==
    /\ pc = "ce_ask"
    /\ Issue(Request(examiner, "CROSS_EXAMINATION_PROMPT",
                     BuildContext(PySuffix(messages, 3)),
                     messages[Len(messages)].content), "ce_recv_question")
    /\ UNCHANGED <<inputs, shared, analyzed, locals, nunusual, replies, result, raised>>

CrossExamRecvQuestion ==
    /\ pc = "ce_recv_question"
    /\ \E outcome \in TransportOutcomes :
        /\ MayReply(outcome)
        /\ Count(outcome)
        /\ LET r == Reply(outcome)
           IN  IF r.exc # "none"
               THEN /\ Raise(r.exc)
                    /\ UNCHANGED <<messages>>
               ELSE /\ messages' = Append(messages,
                          TurnEntry(examiner, r.text, iteration))
                    /\ pc' = "ce_answer"
                    /\ UNCHANGED <<raised>>
    /\ pending' = <<>>
    /\ UNCHANGED <<inputs, shared, analyzed, iteration, idx, key_statements, opponent_statement,
                   previous_context, ncalls, result>>

\* The examinee's answer: other_perspective is the question just appended.
CrossExamAnswer ==
    /\ pc = "ce_answer"
    /\ Issue(Request(examinee, "CROSS_EXAMINATION_PROMPT",
                     BuildContext(PySuffix(messages, 3)),
                     messages[Len(messages)].content), "ce_recv_answer")
    /\ UNCHANGED <<inputs, shared, analyzed, locals, nunusual, replies, result, raised>>

CrossExamRecvAnswer ==
    /\ pc = "ce_recv_answer"
    /\ \E outcome \in TransportOutcomes :
        /\ MayReply(outcome)
        /\ Count(outcome)
        /\ LET r == Reply(outcome)
           IN  IF r.exc # "none"
               THEN /\ Raise(r.exc)
                    /\ UNCHANGED <<messages>>
               ELSE /\ messages' = Append(messages,
                          TurnEntry(examinee, r.text, iteration))
                    /\ pc' = "ce_loop"
                    /\ UNCHANGED <<raised>>
    /\ pending' = <<>>
    /\ UNCHANGED <<inputs, shared, analyzed, iteration, idx, key_statements, opponent_statement,
                   previous_context, ncalls, result>>

CrossExamFinish ==
    /\ pc = "ce_finish"
    /\ AnalyzeCall(messages, max_iterations)
    /\ key_statements' = ExtractKeyStatements(messages, max_iterations)
    /\ Return(DebateResult(CROSS_EXAM, AnalyzeDebate(messages, max_iterations),
                           key_statements', TRUE, FALSE))
    /\ UNCHANGED <<inputs, shared, iteration, idx, messages, opponent_statement,
                   previous_context, pending, ncalls, nunusual, replies, raised>>

----------------------------------------------------------------------------
(* Many-on-one: Facilitator._run_many_on_one *)

\* participants[0] and participants[1:]
mo_examinee == participants[1]
examiners == Tail(participants)

ManyOnOneStart ==
    /\ pc = "mo_start"
    /\ IF participants = <<>>
       THEN /\ Raise("IndexError")
            /\ UNCHANGED <<pending, ncalls>>
       ELSE /\ Issue(InitialStatementRequest(mo_examinee), "mo_recv_initial")
            /\ UNCHANGED <<raised>>
    /\ UNCHANGED <<inputs, shared, analyzed, locals, nunusual, replies, result>>

ManyOnOneRecvInitial ==
    /\ pc = "mo_recv_initial"
    /\ \E outcome \in TransportOutcomes :
        /\ MayReply(outcome)
        /\ Count(outcome)
        /\ LET r == Reply(outcome)
           IN  IF r.exc # "none"
               THEN /\ Raise(r.exc)
                    /\ UNCHANGED <<messages>>
               ELSE /\ messages' = Append(messages,
                          TurnEntry(mo_examinee, r.text, 0))
                    /\ pc' = "mo_loop"
                    /\ UNCHANGED <<raised>>
    /\ pending' = <<>>
    /\ UNCHANGED <<inputs, shared, analyzed, iteration, idx, key_statements, opponent_statement,
                   previous_context, ncalls, result>>

ManyOnOneLoop ==
    /\ pc = "mo_loop"
    /\ ForIteration("mo_round", "mo_finish")
    /\ UNCHANGED <<inputs, shared, analyzed, messages, key_statements, opponent_statement,
                   previous_context, pending, ncalls, nunusual, replies,
                   result, raised>>

\* The questions taken from a window of fixed size, messages[-3:].
AllQuestions_FixedWindow(msgs, exs) == SpeakerAndContent(PySuffix(msgs, 3))

\* The questions the examinee is to answer: messages[-(len(examiners)):]
AllQuestions(msgs, exs) == SpeakerAndContent(PySuffix(msgs, Len(exs)))

\* The round in which the examinee is asked as soon as the first examiner
\* has asked.
ManyOnOneAsk_AfterFirstExaminer ==
    /\ pc = "mo_round"
    /\ IF idx <= Min(1, Len(examiners))
       THEN Issue(Request(examiners[idx], "MANY_ON_ONE_PROMPT",
                          BuildContext(PySuffix(messages, 5)),
                          [position |-> messages[Len(messages)].content, cut |-> 200]),
                  "mo_recv_question")
       ELSE Issue(Request(mo_examinee, "MANY_ON_ONE_PROMPT",
                          BuildContext(PySuffix(messages, 10)),
                          AllQuestions(messages, examiners)),
                  "mo_recv_answer")
    /\ UNCHANGED <<inputs, shared, analyzed, locals, nunusual, replies, result, raised>>

\* One step of the round: the next examiner asks, or, after the last one,
\* the examinee is asked to respond to all questions.
ManyOnOneAsk ==
    /\ pc = "mo_round"
    /\ IF idx <= Len(examiners)
       THEN Issue(Request(examiners[idx], "MANY_ON_ONE_PROMPT",
                          BuildContext(PySuffix(messages, 5)),
                          [position |-> messages[Len(messages)].content, cut |-> 200]),
                  "mo_recv_question")
       ELSE Issue(Request(mo_examinee, "MANY_ON_ONE_PROMPT",
                          BuildContext(PySuffix(messages, 10)),
                          AllQuestions(messages, examiners)),
                  "mo_recv_answer")
    /\ UNCHANGED <<inputs, shared, analyzed, locals, nunusual, replies, result, raised>>

ManyOnOneRecvQuestion ==
    /\ pc = "mo_recv_question"
    /\ \E outcome \in TransportOutcomes :
        /\ MayReply(outcome)
        /\ Count(outcome)
        /\ LET r == Reply(outcome)
           IN  IF r.exc # "none"
               THEN /\ Raise(r.exc)
                    /\ UNCHANGED <<messages, idx>>
               ELSE /\ messages' = Append(messages,
                          TurnEntry(examiners[idx], r.text, iteration))
                    /\ idx' = idx + 1
                    /\ pc' = "mo_round"
                    /\ UNCHANGED <<raised>>
    /\ pending' = <<>>
    /\ UNCHANGED <<inputs, shared, analyzed, iteration, key_statements, opponent_statement,
                   previous_context, ncalls, result>>

ManyOnOneRecvAnswer ==
    /\ pc = "mo_recv_answer"
    /\ \E outcome \in TransportOutcomes :
        /\ MayReply(outcome)
        /\ Count(outcome)
        /\ LET r == Reply(outcome)
           IN  IF r.exc # "none"
               THEN /\ Raise(r.exc)
                    /\ UNCHANGED <<messages>>
               ELSE /\ messages' = Append(messages,
                          TurnEntry(mo_examinee, r.text, iteration))
                    /\ pc' = "mo_loop"
                    /\ UNCHANGED <<raised>>
    /\ pending' = <<>>
    /\ UNCHANGED <<inputs, shared, analyzed, iteration, idx, key_statements, opponent_statement,
                   previous_context, ncalls, result>>

ManyOnOneFinish ==
    /\ pc = "mo_finish"
    /\ AnalyzeCall(messages, max_iterations)
    /\ key_statements' = ExtractKeyStatements(messages, max_iterations)
    /\ Return(DebateResult(MANY_ON_ONE, AnalyzeDebate(messages, max_iterations),
                           key_statements', TRUE, FALSE))
    /\ UNCHANGED <<inputs, shared, iteration, idx, messages, opponent_statement,
                   previous_context, pending, ncalls, nunusual, replies, raised>>

----------------------------------------------------------------------------
(* Panel: Facilitator._run_panel_discussion *)

\* participants[0] and participants[1:]
moderator == participants[1]
panelists == Tail(participants)
has_user_moderator == moderator.model = USER

\* Facilitator._generate_moderator_opening
ModeratorOpeningRequest(p) ==
    Request(p, "MODERATOR_PROMPT", EmptyString, "Open the panel discussion")

\* Facilitator._generate_moderator_summary
ModeratorSummaryRequest(p, recent_messages) ==
    Request(p, "MODERATOR_PROMPT",
            IF recent_messages = <<>>
            THEN EmptyString
            ELSE [kind |-> "entries",
                  entries |-> SpeakerAndContentCut(recent_messages,
                                                   SummaryBudget)],
            "Summarize key points")

PanelStart ==
    /\ pc = "pn_start"
    /\ IF participants = <<>>
       THEN /\ Raise("IndexError")
            /\ UNCHANGED <<pending, ncalls, messages>>
       ELSE IF ~has_user_moderator
       THEN /\ Issue(ModeratorOpeningRequest(moderator), "pn_recv_opening")
            /\ UNCHANGED <<raised, messages>>
       ELSE /\ messages' = Append(messages,
                    PendingEntry(moderator, AwaitingModeratorOpening, 0))
            /\ pc' = "pn_loop"
            /\ UNCHANGED <<pending, ncalls, raised>>
    /\ UNCHANGED <<inputs, shared, analyzed, iteration, idx, key_statements, opponent_statement,
                   previous_context, nunusual, replies, result>>

PanelRecvOpening ==
    /\ pc = "pn_recv_opening"
    /\ \E outcome \in TransportOutcomes :
        /\ MayReply(outcome)
        /\ Count(outcome)
        /\ LET r == Reply(outcome)
           IN  IF r.exc # "none"
               THEN /\ Raise(r.exc)
                    /\ UNCHANGED <<messages>>
               ELSE /\ messages' = Append(messages,
                          TurnEntry(moderator, r.text, 0))
                    /\ pc' = "pn_loop"
                    /\ UNCHANGED <<raised>>
    /\ pending' = <<>>
    /\ UNCHANGED <<inputs, shared, analyzed, iteration, idx, key_statements, opponent_statement,
                   previous_context, ncalls, result>>

PanelLoop ==
    /\ pc = "pn_loop"
    /\ ForIteration("pn_round", "pn_finish")
    /\ UNCHANGED <<inputs, shared, analyzed, messages, key_statements, opponent_statement,
                   previous_context, pending, ncalls, nunusual, replies,
                   result, raised>>

\* The summary in every round, and the summary whoever the moderator is.
ModeratorSummarizes_EveryRound(it) == ~has_user_moderator
ModeratorSummarizes_IgnoresUser(it) == it % 2 = 0

\* `iteration % 2 == 0 and not has_user_moderator`
ModeratorSummarizes(it) == it % 2 = 0 /\ ~has_user_moderator

\* The round in which the guidance handed to a panelist is the moderator's
\* latest entry, the summary once there is one.
PanelSpeak_LatestModeratorEntry ==
    /\ pc = "pn_round"
    /\ IF idx <= Len(panelists)
       THEN LET said == SelectSeq(messages,
                            LAMBDA m : m.speaker = moderator.label)
            IN  Issue(Request(panelists[idx], "PANEL_DISCUSSION_PROMPT",
                              BuildContext(PySuffix(messages, 5)),
                              said[Len(said)].content),
                      "pn_recv_statement")
       ELSE IF ModeratorSummarizes(iteration)
       THEN Issue(ModeratorSummaryRequest(moderator,
                                          PySuffix(messages, Len(panelists))),
                  "pn_recv_summary")
       ELSE /\ pc' = "pn_loop"
            /\ UNCHANGED <<pending, ncalls>>
    /\ UNCHANGED <<inputs, shared, analyzed, locals, nunusual, replies, result, raised>>

\* One step of the round: the next panelist speaks, or, after the last one,
\* the moderator summarizes (every other round) or the round ends.
PanelSpeak ==
    /\ pc = "pn_round"
    /\ IF idx <= Len(panelists)
       THEN Issue(Request(panelists[idx], "PANEL_DISCUSSION_PROMPT",
                          BuildContext(PySuffix(messages, 5)),
                          IF messages # <<>> THEN messages[1].content ELSE EmptyText),
                  "pn_recv_statement")
       ELSE IF ModeratorSummarizes(iteration)
       THEN Issue(ModeratorSummaryRequest(moderator,
                                          PySuffix(messages, Len(panelists))),
                  "pn_recv_summary")
       ELSE /\ pc' = "pn_loop"
            /\ UNCHANGED <<pending, ncalls>>
    /\ UNCHANGED <<inputs, shared, analyzed, locals, nunusual, replies, result, raised>>

PanelRecvStatement ==
    /\ pc = "pn_recv_statement"
    /\ \E outcome \in TransportOutcomes :
        /\ MayReply(outcome)
        /\ Count(outcome)
        /\ LET r == Reply(outcome)
           IN  IF r.exc # "none"
               THEN /\ Raise(r.exc)
                    /\ UNCHANGED <<messages, idx>>
               ELSE /\ messages' = Append(messages,
                          TurnEntry(panelists[idx], r.text, iteration))
                    /\ idx' = idx + 1
                    /\ pc' = "pn_round"
                    /\ UNCHANGED <<raised>>
    /\ pending' = <<>>
    /\ UNCHANGED <<inputs, shared, analyzed, iteration, key_statements, opponent_statement,
                   previous_context, ncalls, result>>

PanelRecvSummary ==
    /\ pc = "pn_recv_summary"
    /\ \E outcome \in TransportOutcomes :
        /\ MayReply(outcome)
        /\ Count(outcome)
        /\ LET r == Reply(outcome)
           IN  IF r.exc # "none"
               THEN /\ Raise(r.exc)
                    /\ UNCHANGED <<messages>>
               ELSE /\ messages' = Append(messages,
                          TurnEntry(moderator, r.text, iteration))
                    /\ pc' = "pn_loop"
                    /\ UNCHANGED <<raised>>
    /\ pending' = <<>>
    /\ UNCHANGED <<inputs, shared, analyzed, iteration, idx, key_statements, opponent_statement,
                   previous_context, ncalls, result>>

\* `not has_user_moderator or iteration >= max_iterations` reads `iteration`
\* only when the moderator is the user.
PanelFinish ==
    /\ pc = "pn_finish"
    /\ AnalyzeCall(messages, max_iterations)
    /\ key_statements' = ExtractKeyStatements(messages, max_iterations)
    /\ IF has_user_moderator /\ iteration = Unbound
       THEN /\ Raise("UnboundLocalError")
            /\ UNCHANGED <<result>>
       ELSE LET metrics == AnalyzeDebate(messages, max_iterations)
            IN  /\ Return(DebateResult(PANEL, metrics, key_statements',
                              ~has_user_moderator \/ iteration >= max_iterations,
                              ConvergenceReached(metrics)))
                /\ UNCHANGED <<raised>>
    /\ UNCHANGED <<inputs, shared, iteration, idx, messages, opponent_statement,
                   previous_context, pending, ncalls, nunusual, replies>>

----------------------------------------------------------------------------
(* Round robin: Facilitator._run_round_robin *)

RoundRobinStart ==
    /\ pc = "rr_start"
    /\ messages' = <<>>
    /\ key_statements' = <<>>
    /\ pc' = "rr_loop"
    /\ UNCHANGED <<inputs, shared, analyzed, iteration, idx, opponent_statement, previous_context,
                   pending, ncalls, nunusual, replies, result, raised>>

\* The loop that keeps only the last round of the transcript.
RoundRobinLoop_TrimsTranscript ==
    /\ pc = "rr_loop"
    /\ ForIteration("rr_round", "rr_finish")
    /\ messages' = PySuffix(messages, Len(participants))
    /\ UNCHANGED <<inputs, shared, analyzed, key_statements, opponent_statement,
                   previous_context, pending, ncalls, nunusual, replies,
                   result, raised>>

RoundRobinLoop ==
    /\ pc = "rr_loop"
    /\ ForIteration("rr_round", "rr_finish")
    /\ UNCHANGED <<inputs, shared, analyzed, messages, key_statements, opponent_statement,
                   previous_context, pending, ncalls, nunusual, replies,
                   result, raised>>

\* The round in which every speaker is handed the entries of the previous
\* round only.
RoundRobinSpeak_PreviousRoundOnly ==
    /\ pc = "rr_round"
    /\ IF idx <= Len(participants)
       THEN Issue(Request(participants[idx], "ROUND_ROBIN_PROMPT",
                          BuildContext(SelectSeq(messages,
                              LAMBDA m : m.iteration = iteration - 1)),
                          EmptyText),
                  "rr_recv")
       ELSE /\ pc' = "rr_loop"
            /\ UNCHANGED <<pending, ncalls>>
    /\ UNCHANGED <<inputs, shared, analyzed, locals, nunusual, replies, result, raised>>

\* One step of the round: the next participant speaks, or the round ends.
RoundRobinSpeak ==
    /\ pc = "rr_round"
    /\ IF idx <= Len(participants)
       THEN Issue(Request(participants[idx], "ROUND_ROBIN_PROMPT",
                          BuildContext(PySuffix(messages, Len(participants))),
                          EmptyText),
                  "rr_recv")
       ELSE /\ pc' = "rr_loop"
            /\ UNCHANGED <<pending, ncalls>>
    /\ UNCHANGED <<inputs, shared, analyzed, locals, nunusual, replies, result, raised>>

RoundRobinRecv ==
    /\ pc = "rr_recv"
    /\ \E outcome \in TransportOutcomes :
        /\ MayReply(outcome)
        /\ Count(outcome)
        /\ LET r == Reply(outcome)
           IN  IF r.exc # "none"
               THEN /\ Raise(r.exc)
                    /\ UNCHANGED <<messages, idx>>
               ELSE /\ messages' = Append(messages,
                          TurnEntry(participants[idx], r.text, iteration))
                    /\ idx' = idx + 1
                    /\ pc' = "rr_round"
                    /\ UNCHANGED <<raised>>
    /\ pending' = <<>>
    /\ UNCHANGED <<inputs, shared, analyzed, iteration, key_statements, opponent_statement,
                   previous_context, ncalls, result>>

RoundRobinFinish ==
    /\ pc = "rr_finish"
    /\ AnalyzeCall(messages, max_iterations)
    /\ key_statements' = ExtractKeyStatements(messages, max_iterations)
    /\ LET metrics == AnalyzeDebate(messages, max_iterations)
       IN  Return(DebateResult(ROUND_ROBIN, metrics, key_statements', TRUE,
                               ConvergenceReached(metrics)))
    /\ UNCHANGED <<inputs, shared, iteration, idx, messages, opponent_statement,
                   previous_context, pending, ncalls, nunusual, replies, raised>>

----------------------------------------------------------------------------
Next ==
    \/ RunDebate
    \/ OneToOneStart
    \/ OneToOneLoop
    \/ OneToOneTurn1
    \/ OneToOneRecv1
    \/ OneToOneTurn2
    \/ OneToOneRecv2
    \/ OneToOneFinish
    \/ CrossExamStart
    \/ CrossExamRecvInitial
    \/ CrossExamLoop
    \/ CrossExamAsk
    \/ CrossExamRecvQuestion
    \/ CrossExamAnswer
    \/ CrossExamRecvAnswer
    \/ CrossExamFinish
    \/ ManyOnOneStart
    \/ ManyOnOneRecvInitial
    \/ ManyOnOneLoop
    \/ ManyOnOneAsk
    \/ ManyOnOneRecvQuestion
    \/ ManyOnOneRecvAnswer
    \/ ManyOnOneFinish
    \/ PanelStart
    \/ PanelRecvOpening
    \/ PanelLoop
    \/ PanelSpeak
    \/ PanelRecvStatement
    \/ PanelRecvSummary
    \/ PanelFinish
    \/ RoundRobinStart
    \/ RoundRobinLoop
    \/ RoundRobinSpeak
    \/ RoundRobinRecv
    \/ RoundRobinFinish

Spec == Init /\ [][Next]_vars

\* Runs of up to MaxLongRounds rounds in which every generation call is
\* answered with an ordinary text.
LongInit ==
    /\ format \in DebateFormat
    /\ participants \in ParticipantLists
    /\ max_iterations \in 0..MaxLongRounds
    /\ pc = "run_debate"
    /\ iteration = Unbound
    /\ idx = 1
    /\ messages = <<>>
    /\ key_statements = <<>>
    /\ opponent_statement = EmptyText
    /\ previous_context = EmptyString
    /\ pending = <<>>
    /\ ncalls = 0
    /\ nunusual = MaxUnusual
    /\ replies = <<>>
    /\ result = <<>>
    /\ raised = "none"
    /\ analyzed = <<>>
    /\ gain = DEFAULT_GAIN
    /\ gain_to_params = GAIN_TO_PARAMS
    /\ suspended = <<>>

LongSpec == LongInit /\ [][Next]_vars

----------------------------------------------------------------------------
(* The facilitator's helpers on their own: _analyze_debate and             *)
(* _extract_key_statements applied to a transcript and a round index.      *)

\* Characters before the first period of a content.
HeadLens == {0, 14, 19, 20, 99, 100, 150}

LiteralTexts ==
    {LiteralText(h, FALSE, 0) : h \in HeadLens} \cup
    {LiteralText(h, TRUE, r) : h \in HeadLens, r \in {0, 23}}

\* Transcripts of up to MaxEntries entries, the i-th by the i-th speaker.
EntryLists ==
    UNION { { [i \in 1..n |-> DebateMessage(Labels[i], cs[i], Roles[i], 1)]
                : cs \in [1..n -> LiteralTexts] }
            : n \in 0..MaxEntries }

HelperInit ==
    /\ format = ROUND_ROBIN
    /\ participants = <<>>
    /\ max_iterations = 0
    /\ pc = "helper"
    /\ iteration \in 0..MaxIndex
    /\ idx = 1
    /\ messages \in EntryLists
    /\ key_statements = <<>>
    /\ opponent_statement = EmptyText
    /\ previous_context = EmptyString
    /\ pending = <<>>
    /\ ncalls = 0
    /\ nunusual = 0
    /\ replies = <<>>
    /\ result = <<>>
    /\ raised = "none"
    /\ analyzed = <<>>
    /\ gain = DEFAULT_GAIN
    /\ gain_to_params = GAIN_TO_PARAMS
    /\ suspended = <<>>

\* self._analyze_debate(topic, messages, iteration)
CallAnalyzeDebate ==
    /\ pc = "helper"
    /\ AnalyzeCall(messages, iteration)
    /\ result' = <<AnalyzeDebate(messages, iteration)>>
    /\ pc' = "analyzed"
    /\ UNCHANGED <<inputs, shared, locals, pending, ncalls, nunusual, replies, raised>>

\* self._extract_key_statements(messages, iteration)
CallExtractKeyStatements ==
    /\ pc = "helper"
    /\ key_statements' = ExtractKeyStatements(messages, iteration)
    /\ pc' = "extracted"
    /\ UNCHANGED <<inputs, shared, analyzed, iteration, idx, messages,
                   opponent_statement, previous_context, pending, ncalls,
                   nunusual, replies, result, raised>>

HelperNext ==
    \/ CallAnalyzeDebate
    \/ CallExtractKeyStatements

HelperSpec == HelperInit /\ [][HelperNext]_vars

----------------------------------------------------------------------------
(* The delegated analysis: analyze_debate of app/server.py.  The request   *)
(* is (messages, iteration); one generation call goes to the metrics model *)
(* and its response is searched for a brace-delimited block, parsed and    *)
(* mapped to DebateMetrics.                                                *)

METRICS_MODEL == "gemma3:27b"

\* The value of a key of the parsed block: absent, a number (in tenths), a
\* string that is not a number, or null.
Absent == [kind |-> "absent", tenths |-> 0]
Number(t) == [kind |-> "number", tenths |-> t]
NotANumber == [kind |-> "string", tenths |-> 0]
Null == [kind |-> "null", tenths |-> 0]

ScoreValues ==
    {Absent, NotANumber, Null} \cup {Number(t) : t \in {-10, 0, 50, 80, 100, 110}}

\* What the response text holds: no brace-delimited block, a block that is
\* not JSON, or a JSON object with some of the five keys.
NoBlock ==
    [block |-> "none", agreementScore |-> Absent, convergenceStatus |-> "absent",
     emotionalSensitivity |-> "absent", biasLevel |-> "absent",
     topicDrift |-> "absent"]
InvalidBlock ==
    [block |-> "invalid", agreementScore |-> Absent, convergenceStatus |-> "absent",
     emotionalSensitivity |-> "absent", biasLevel |-> "absent",
     topicDrift |-> "absent"]
ObjectBlocks ==
    [block : {"object"},
     agreementScore : ScoreValues,
     convergenceStatus : {"absent", "CONVERGING", "converging"},
     emotionalSensitivity : {"absent", "HIGH"},
     biasLevel : {"absent", "HIGH"},
     topicDrift : {"absent", "MEDIUM"}]

AnalysisBodies == {NoBlock, InvalidBlock} \cup ObjectBlocks

\* The text of a response with the given body.
AnalysisText(body) ==
    [kind |-> "analysis", n |-> 0, reason |-> "none", body |-> body]

\* The body of a response text; "" and any other text hold no block.
BodyOf(text) == IF text.kind = "analysis" THEN text.body ELSE NoBlock

\* convergence_map.get(value, ConvergenceStatus.STABLE) and the like
ConvergenceOf(v) == IF v = "CONVERGING" THEN "Converging" ELSE "Stable"
SensitivityOf(v) ==
    CASE v = "HIGH" -> "High" [] v = "MEDIUM" -> "Medium" [] OTHER -> "Low"
BiasOf(v) == IF v = "HIGH" THEN "High" ELSE "Neutral"

\* The error metrics with a neutral agreementScore of 5.0.
BaselineMetrics_Neutral(it) ==
    [iteration |-> it, status |-> "In Progress", agreementScore |-> 50,
     convergenceStatus |-> "Stable", emotionalSensitivity |-> "Low",
     biasLevel |-> "Neutral", topicDrift |-> "Low"]

\* The metrics of the except clause.
BaselineMetrics(it) ==
    [iteration |-> it, status |-> "In Progress", agreementScore |-> 0,
     convergenceStatus |-> "Stable", emotionalSensitivity |-> "Low",
     biasLevel |-> "Neutral", topicDrift |-> "Low"]

\* AnalyzeDebateResponse(metrics, success, error)
AnalyzeDebateResponse(metrics, success, error) ==
    [metrics |-> metrics, success |-> success, error |-> error]

\* The except clause: baseline metrics, success = False, error = str(e).
AnalysisFailed(it, error) ==
    AnalyzeDebateResponse(BaselineMetrics(it), FALSE, error)

\* The try block from the generator's result on: g is what
\* OllamaClient.generate did, text the response it returned.
AnalysisOf(g, text, it) ==
    LET body == BodyOf(text)
        score == body.agreementScore
    IN  CASE ~g.ok -> AnalysisFailed(it, g.msg)
          [] body.block = "none" ->
                AnalysisFailed(it, "Could not parse metrics JSON from LLM response")
          [] body.block = "invalid" -> AnalysisFailed(it, "JSONDecodeError")
          [] score.kind = "string" ->
                AnalysisFailed(it, "could not convert string to float")
          [] score.kind = "null" ->
                AnalysisFailed(it, "float() argument must be a string or a real number")
          [] OTHER ->
                AnalyzeDebateResponse(
                    [iteration |-> it,
                     status |-> "In Progress",
                     agreementScore |->
                        IF score.kind = "absent" THEN 50 ELSE score.tenths,
                     convergenceStatus |-> ConvergenceOf(body.convergenceStatus),
                     emotionalSensitivity |-> SensitivityOf(body.emotionalSensitivity),
                     biasLevel |-> BiasOf(body.biasLevel),
                     topicDrift |-> SensitivityOf(body.topicDrift)],
                    TRUE, "none")

\* request.messages: transcripts of generated texts.
RequestMessages ==
    { [i \in 1..n |-> DebateMessage(Labels[i], GeneratedText(i), Roles[i], 1)]
        : n \in 0..MaxEntries }

ServerInit ==
    /\ format = ROUND_ROBIN
    /\ participants = <<>>
    /\ max_iterations = 0
    /\ pc = "an_start"
    /\ iteration \in 0..MaxIndex
    /\ idx = 1
    /\ messages \in RequestMessages
    /\ key_statements = <<>>
    /\ opponent_statement = EmptyText
    /\ previous_context = EmptyString
    /\ pending = <<>>
    /\ ncalls = 0
    /\ nunusual = 0
    /\ replies = <<>>
    /\ result = <<>>
    /\ raised = "none"
    /\ analyzed = <<>>
    /\ gain = DEFAULT_GAIN
    /\ gain_to_params = GAIN_TO_PARAMS
    /\ suspended = <<>>

\* The prompt is built from every message, untruncated, and the call is
\* issued.
AnalyzeDebateRequest ==
    /\ pc = "an_start"
    /\ Issue([model |-> METRICS_MODEL, speaker |-> "analyzer",
              template |-> "analysis_prompt",
              context |-> [kind |-> "entries",
                           entries |-> SpeakerAndContent(messages)],
              other |-> Topic],
             "an_recv")
    /\ UNCHANGED <<inputs, shared, analyzed, locals, nunusual, replies, result, raised>>

\* The call returns or raises, and the endpoint returns its response.
AnalyzeDebateRespond ==
    /\ pc = "an_recv"
    /\ \E outcome \in TransportOutcomes, body \in AnalysisBodies :
        /\ outcome # "text" => body = NoBlock
        /\ LET g == Generate(outcome, ncalls)
               text == IF outcome = "text" THEN AnalysisText(body) ELSE g.output
           IN  /\ replies' = Append(replies, [outcome |-> outcome, body |-> body])
               /\ result' = <<AnalysisOf(g, text, iteration)>>
    /\ pending' = <<>>
    /\ pc' = "an_done"
    /\ UNCHANGED <<inputs, shared, analyzed, locals, ncalls, nunusual, raised>>

ServerNext ==
    \/ AnalyzeDebateRequest
    \/ AnalyzeDebateRespond

ServerSpec == ServerInit /\ [][ServerNext]_vars

----------------------------------------------------------------------------
(* The single-turn variant: generate_turn of app/server.py.  The request   *)
(* is (participant, previousMessages, iteration, maxIterations), held in   *)
(* participants[1], messages, iteration and max_iterations.                *)

TurnBudget == 200

\* maxIterations sent as null: Optional[int] lets it through.
None == -2

TurnRoles == {"debater1", "moderator", "examiner", "examinee"}

\* 'moderator' in request.participant.role.lower()
IsModeratorRole(role) == role = "moderator"
\* 'examiner' in role.lower() and 'examinee' not in role.lower()
IsExaminerRole(role) == role = "examiner"
\* 'examinee' in role.lower()
IsExamineeRole(role) == role = "examinee"

\* f"Error generating response: {str(e)}"
TurnErrorText(reason) == [kind |-> "turn_error", n |-> 0, reason |-> reason]

\* request.previousMessages: transcripts of generated texts.
TurnTranscripts ==
    { [i \in 1..n |-> DebateMessage(Labels[i], GeneratedText(i), Roles[i], 1)]
        : n \in 0..MaxPrevious }

TurnParticipants ==
    { [role |-> r, label |-> "P1", model |-> m] : r \in TurnRoles, m \in Models }

TurnInit ==
    /\ format = ONE_TO_ONE
    /\ participants \in { <<p>> : p \in TurnParticipants }
    /\ max_iterations \in {None, 1}
    /\ pc = "gt_start"
    /\ iteration \in 1..2
    /\ idx = 1
    /\ messages \in TurnTranscripts
    /\ key_statements = <<>>
    /\ opponent_statement = EmptyText
    /\ previous_context = EmptyString
    /\ pending = <<>>
    /\ ncalls = 0
    /\ nunusual = 0
    /\ replies = <<>>
    /\ result = <<>>
    /\ raised = "none"
    /\ analyzed = <<>>
    /\ gain = DEFAULT_GAIN
    /\ gain_to_params = GAIN_TO_PARAMS
    /\ suspended = <<>>

\* GenerateTurnResponse(message, success, error)
GenerateTurnResponse(message, success, error) ==
    [message |-> message, success |-> success, error |-> error]

\* The except clause with success left True and no error.
TurnFailed_SilentSuccess(p, it, error) ==
    GenerateTurnResponse(DebateMessage(p.label, TurnErrorText(error), p.role, it),
                         TRUE, "none")

\* The except clause: an entry of the participant with the error text,
\* success = False, error = str(e).
TurnFailed(p, it, error) ==
    GenerateTurnResponse(DebateMessage(p.label, TurnErrorText(error), p.role, it),
                         FALSE, error)

\* The prompt of the turn: its template and the context placed in it.
TurnRequest(p, msgs, it, maxit) ==
    LET is_first_turn == msgs = <<>>
        is_moderator == IsModeratorRole(p.role)
        is_moderator_summary_turn == it > maxit /\ is_moderator
        is_user == p.model = USER
        recent_messages == IF is_moderator THEN msgs ELSE PySuffix(msgs, 3)
        context_parts ==
            IF is_moderator
            THEN SpeakerAndContent(recent_messages)
            ELSE SpeakerAndContentCut(recent_messages, TurnBudget)
        context ==
            IF context_parts = <<>>
            THEN EmptyString
            ELSE [kind |-> "entries", entries |-> context_parts]
    IN  CASE is_moderator_summary_turn /\ ~is_user ->
                Request(p, "final_summary", context, Topic)
          [] is_first_turn /\ is_moderator ->
                Request(p, "moderator_opening", NoContext, Topic)
          [] is_first_turn ->
                Request(p, "opening", NoContext, Topic)
          [] is_moderator -> Request(p, "moderation", context, Topic)
          [] IsExaminerRole(p.role) -> Request(p, "examiner", context, Topic)
          [] IsExamineeRole(p.role) -> Request(p, "examinee", context, Topic)
          [] OTHER -> Request(p, "debater", context, Topic)

\* The try block up to the generation call: `request.iteration >
\* request.maxIterations` raises TypeError when maxIterations is null, and
\* the except clause returns; otherwise the call is issued, whatever the
\* participant's model is.
GenerateTurnPrompt ==
    /\ pc = "gt_start"
    /\ IF max_iterations = None
       THEN /\ result' = <<TurnFailed(participants[1], iteration, "TypeError")>>
            /\ pc' = "gt_done"
            /\ UNCHANGED <<pending, ncalls>>
       ELSE /\ Issue(TurnRequest(participants[1], messages, iteration,
                                 max_iterations), "gt_recv")
            /\ UNCHANGED <<result>>
    /\ UNCHANGED <<inputs, shared, analyzed, locals, nunusual, replies, raised>>

\* The call returns or raises, and the endpoint returns its response.
GenerateTurnRespond ==
    /\ pc = "gt_recv"
    /\ \E outcome \in TransportOutcomes :
        /\ MayReply(outcome)
        /\ Count(outcome)
        /\ LET g == Generate(outcome, ncalls)
               p == participants[1]
           IN  result' =
                  <<IF g.ok
                    THEN GenerateTurnResponse(
                             DebateMessage(p.label, g.output, p.role, iteration),
                             TRUE, "none")
                    ELSE TurnFailed(p, iteration, g.msg)>>
    /\ pending' = <<>>
    /\ pc' = "gt_done"
    /\ UNCHANGED <<inputs, shared, analyzed, locals, ncalls, raised>>

TurnNext ==
    \/ GenerateTurnPrompt
    \/ GenerateTurnRespond

TurnSpec == TurnInit /\ [][TurnNext]_vars

\* Every way a turn is generated: the runs of the engine (up to
\* MaxLongRounds rounds) and the single-turn requests.
AllTurnsInit == LongInit \/ TurnInit
AllTurnsNext == Next \/ TurnNext
AllTurnsSpec == AllTurnsInit /\ [][AllTurnsNext]_vars

----------------------------------------------------------------------------
(* Sampling parameters: get_ollama_params of app/config.py.  A dict the     *)
(* function returns is held with the level of the table entry it is (0      *)
(* when it is a dict of its own), so that a change of the returned dict     *)
(* reaches the table exactly when the two are the same object.              *)

SamplingKeys == {"temperature", "top_p", "top_k"}

\* The gains handed to the function: the levels and MaxGainExcess values on
\* either side of them.
GainInputs == (MIN_GAIN - MaxGainExcess)..(MAX_GAIN + MaxGainExcess)

\* get_ollama_params returning the table's own entry.
get_ollama_params_NoCopy(g) ==
    LET level == Max(MIN_GAIN, Min(MAX_GAIN, g))
    IN  [entry |-> level, value |-> gain_to_params[level]]

\* gain = max(MIN_GAIN, min(MAX_GAIN, gain)); GAIN_TO_PARAMS[gain].copy()
get_ollama_params(g) ==
    LET level == Max(MIN_GAIN, Min(MAX_GAIN, g))
    IN  [entry |-> 0, value |-> gain_to_params[level]]

ParamInit ==
    /\ format = ROUND_ROBIN
    /\ participants = <<>>
    /\ max_iterations = 0
    /\ pc = "params"
    /\ iteration = Unbound
    /\ idx = 1
    /\ messages = <<>>
    /\ key_statements = <<>>
    /\ opponent_statement = EmptyText
    /\ previous_context = EmptyString
    /\ pending = <<>>
    /\ ncalls = 0
    /\ nunusual = 0
    /\ replies = <<>>
    /\ result = <<>>
    /\ raised = "none"
    /\ analyzed = <<>>
    /\ gain \in GainInputs
    /\ gain_to_params = GAIN_TO_PARAMS
    /\ suspended = <<>>

\* params = config.get_ollama_params(gain)
GetOllamaParams ==
    /\ pc = "params"
    /\ result' = <<get_ollama_params(gain)>>
    /\ pc' = "returned"
    /\ UNCHANGED <<inputs, shared, analyzed, locals, pending, ncalls, nunusual,
                   replies, raised>>

\* The holder of the returned dict assigns to one of its keys.
ChangeReturned ==
    /\ pc = "returned"
    /\ \E key \in SamplingKeys, v \in {0, 200} :
        LET r == result[1]
            changed == [r.value EXCEPT ![key] = v]
        IN  /\ result' = <<[r EXCEPT !.value = changed]>>
            /\ gain_to_params' =
                  IF r.entry # 0
                  THEN [gain_to_params EXCEPT ![r.entry] = changed]
                  ELSE gain_to_params
    /\ pc' = "changed"
    /\ UNCHANGED <<inputs, suspended, analyzed, locals, pending, ncalls,
                   nunusual, replies, raised>>

\* A later turn, of any gain: params = config.get_ollama_params(gain)
GetOllamaParamsLater ==
    /\ pc = "changed"
    /\ \E g \in GainInputs :
        /\ gain' = g
        /\ result' = <<get_ollama_params(g)>>
    /\ pc' = "later"
    /\ UNCHANGED <<format, participants, max_iterations, shared, analyzed,
                   locals, pending, ncalls, nunusual, replies, raised>>

ParamNext ==
    \/ GetOllamaParams
    \/ ChangeReturned
    \/ GetOllamaParamsLater

ParamSpec == ParamInit /\ [][ParamNext]_vars

----------------------------------------------------------------------------
(* Two runs on the one Facilitator of app/server.py.  The run that is not   *)
(* taking steps is held, whole, in `suspended`; the two change places at    *)
(* any moment, so that the steps of the two runs interleave freely.  The    *)
(* participants of the second run have labels of their own.                 *)

\* The state of the run that is taking steps.
RunState ==
    [format |-> format,
     participants |-> participants,
     max_iterations |-> max_iterations,
     gain |-> gain,
     pc |-> pc,
     iteration |-> iteration,
     idx |-> idx,
     messages |-> messages,
     key_statements |-> key_statements,
     opponent_statement |-> opponent_statement,
     previous_context |-> previous_context,
     pending |-> pending,
     ncalls |-> ncalls,
     nunusual |-> nunusual,
     replies |-> replies,
     result |-> result,
     raised |-> raised,
     analyzed |-> analyzed]

\* The state run_debate starts in; every call is answered with a text.
InitialRun(f, ps, mx) ==
    [format |-> f, participants |-> ps, max_iterations |-> mx,
     gain |-> DEFAULT_GAIN, pc |-> "run_debate", iteration |-> Unbound,
     idx |-> 1, messages |-> <<>>, key_statements |-> <<>>,
     opponent_statement |-> EmptyText, previous_context |-> EmptyString,
     pending |-> <<>>, ncalls |-> 0, nunusual |-> MaxUnusual, replies |-> <<>>,
     result |-> <<>>, raised |-> "none", analyzed |-> <<>>]

\* Two participants, the i-th of them the (first + i)-th of the labels.
TwoParticipants(first) ==
    { [i \in 1..2 |-> ParticipantConfig(first + i, ms[i])] : ms \in [1..2 -> Models] }

\* One run alone, or two runs, each of 1..MaxTwoRounds rounds.
TwoRunInit ==
    /\ \E r \in [format : DebateFormat, participants : TwoParticipants(0),
                 max_iterations : 1..MaxTwoRounds] :
          /\ format = r.format
          /\ participants = r.participants
          /\ max_iterations = r.max_iterations
    /\ pc = "run_debate"
    /\ iteration = Unbound
    /\ idx = 1
    /\ messages = <<>>
    /\ key_statements = <<>>
    /\ opponent_statement = EmptyText
    /\ previous_context = EmptyString
    /\ pending = <<>>
    /\ ncalls = 0
    /\ nunusual = MaxUnusual
    /\ replies = <<>>
    /\ result = <<>>
    /\ raised = "none"
    /\ analyzed = <<>>
    /\ gain = DEFAULT_GAIN
    /\ gain_to_params = GAIN_TO_PARAMS
    /\ suspended \in
          {<<>>} \cup
          { <<InitialRun(f, ps, mx)>> :
                f \in DebateFormat, ps \in TwoParticipants(3),
                mx \in 1..MaxTwoRounds }

\* The change of run with the transcript an attribute of the Facilitator:
\* the run that resumes finds the transcript of the run that stops.
OtherRunResumes_SharedTranscript ==
    /\ suspended # <<>>
    /\ suspended' = <<RunState>>
    /\ format' = suspended[1].format
    /\ participants' = suspended[1].participants
    /\ max_iterations' = suspended[1].max_iterations
    /\ gain' = suspended[1].gain
    /\ pc' = suspended[1].pc
    /\ iteration' = suspended[1].iteration
    /\ idx' = suspended[1].idx
    /\ messages' = messages
    /\ key_statements' = suspended[1].key_statements
    /\ opponent_statement' = suspended[1].opponent_statement
    /\ previous_context' = suspended[1].previous_context
    /\ pending' = suspended[1].pending
    /\ ncalls' = suspended[1].ncalls
    /\ nunusual' = suspended[1].nunusual
    /\ replies' = suspended[1].replies
    /\ result' = suspended[1].result
    /\ raised' = suspended[1].raised
    /\ analyzed' = suspended[1].analyzed
    /\ UNCHANGED <<gain_to_params>>

\* The run taking steps stops where it is and the other run goes on from
\* where it stopped; each finds its own arguments and local variables.
OtherRunResumes ==
    /\ suspended # <<>>
    /\ suspended' = <<RunState>>
    /\ format' = suspended[1].format
    /\ participants' = suspended[1].participants
    /\ max_iterations' = suspended[1].max_iterations
    /\ gain' = suspended[1].gain
    /\ pc' = suspended[1].pc
    /\ iteration' = suspended[1].iteration
    /\ idx' = suspended[1].idx
    /\ messages' = suspended[1].messages
    /\ key_statements' = suspended[1].key_statements
    /\ opponent_statement' = suspended[1].opponent_statement
    /\ previous_context' = suspended[1].previous_context
    /\ pending' = suspended[1].pending
    /\ ncalls' = suspended[1].ncalls
    /\ nunusual' = suspended[1].nunusual
    /\ replies' = suspended[1].replies
    /\ result' = suspended[1].result
    /\ raised' = suspended[1].raised
    /\ analyzed' = suspended[1].analyzed
    /\ UNCHANGED <<gain_to_params>>

TwoRunNext ==
    \/ Next
    \/ OtherRunResumes

TwoRunSpec == TwoRunInit /\ [][TwoRunNext]_vars

----------------------------------------------------------------------------
(* run_debate called a second time with the arguments of a run that has    *)
(* returned: the generator answers the calls of the second run as it       *)
(* likes.  Of the first result, `suspended` keeps what does not hold a     *)
(* generated text, and the number of calls that were not answered with an  *)
(* ordinary text.                                                          *)

\* The result without its texts: who spoke, in which role and round, and
\* the metrics and flags.
ControlSkeleton(r) ==
    [transcript |-> [i \in 1..Len(r.messages) |->
                        [speaker |-> r.messages[i].speaker,
                         role |-> r.messages[i].role,
                         iteration |-> r.messages[i].iteration]],
     metrics |-> r.metrics,
     completed |-> r.completed,
     convergenceReached |-> r.convergenceReached]

RepeatInit ==
    /\ format \in DebateFormat
    /\ participants \in ParticipantLists
    /\ max_iterations \in 0..MaxTwoRounds
    /\ pc = "run_debate"
    /\ iteration = Unbound
    /\ idx = 1
    /\ messages = <<>>
    /\ key_statements = <<>>
    /\ opponent_statement = EmptyText
    /\ previous_context = EmptyString
    /\ pending = <<>>
    /\ ncalls = 0
    /\ nunusual = 0
    /\ replies = <<>>
    /\ result = <<>>
    /\ raised = "none"
    /\ analyzed = <<>>
    /\ gain = DEFAULT_GAIN
    /\ gain_to_params = GAIN_TO_PARAMS
    /\ suspended = <<>>

\* facilitator.run_debate(...) called again with the same arguments.
RunDebateAgain ==
    /\ pc = "done"
    /\ suspended = <<>>
    /\ suspended' = <<[returned |-> ControlSkeleton(result[1]),
                       unusual |-> nunusual]>>
    /\ pc' = "run_debate"
    /\ iteration' = Unbound
    /\ idx' = 1
    /\ messages' = <<>>
    /\ key_statements' = <<>>
    /\ opponent_statement' = EmptyText
    /\ previous_context' = EmptyString
    /\ pending' = <<>>
    /\ ncalls' = 0
    /\ nunusual' = 0
    /\ replies' = <<>>
    /\ result' = <<>>
    /\ raised' = "none"
    /\ analyzed' = <<>>
    /\ UNCHANGED <<inputs, gain_to_params>>

RepeatNext ==
    \/ Next
    \/ RunDebateAgain

RepeatSpec == RepeatInit /\ [][RepeatNext]_vars

----------------------------------------------------------------------------
(* Properties *)

IsPlaceholderEntry(m) == IsPlaceholderText(m.content)
IsGeneratedEntry(m) == ~IsPlaceholderText(m.content)

NonDecreasingRounds(msgs) ==
    \A i \in 1..(Len(msgs) - 1) : msgs[i].iteration <= msgs[i + 1].iteration

\* The keys and the shape of the dict a handler returns.
WellFormedResult(r) ==
    /\ DOMAIN r = {"topic", "format", "participants", "messages", "metrics",
                   "keyStatements", "completed", "convergenceReached"}
    /\ r.topic = Topic
    /\ r.format = format
    /\ r.participants = participants
    /\ r.messages = messages
    /\ DOMAIN r.metrics = {"iteration", "status", "agreementScore",
                           "convergenceStatus", "emotionalSensitivity",
                           "biasLevel", "topicDrift"}
    /\ r.metrics.status \in {"In Progress", "Completed"}
    /\ r.metrics.agreementScore \in 0..100
    /\ r.keyStatements = key_statements
    /\ \A i \in 1..Len(r.keyStatements) :
           DOMAIN r.keyStatements[i] = {"speaker", "text", "iteration"}
    /\ r.completed \in BOOLEAN
    /\ r.convergenceReached \in BOOLEAN

\* C1: in every format, the round index of the transcript entries never
\* decreases from one entry to the next, in the transcript under construction
\* at every step of the run and in the transcript of the returned result.
C1_RoundIndexNonDecreasing ==
    /\ NonDecreasingRounds(messages)
    /\ result # <<>> => NonDecreasingRounds(result[1].messages)

\* A returned panel transcript that holds the opening (round 0), two rounds of
\* panelists and the moderator's summary of round 2.
C1_Witness ==
    /\ pc = "done"
    /\ format = PANEL
    /\ max_iterations = 2
    /\ Len(participants) = 3
    /\ Len(result[1].messages) = 6
    /\ result[1].messages[1].iteration = 0
    /\ result[1].messages[3].iteration = 1
    /\ result[1].messages[6].iteration = 2

\* One-to-one with exactly one participant whose model is USER.
ExactlyOneUser ==
    /\ format = ONE_TO_ONE
    /\ Len(participants) = 2
    /\ (debater1.model = USER) # (debater2.model = USER)

\* C2: a one-to-one run with exactly one USER participant and
\* max_iterations >= 1 returns a transcript with exactly one placeholder
\* entry, which is the USER participant's, and completed = false.
C2_SuspendedRunIsNotCompleted ==
    (ExactlyOneUser /\ max_iterations >= 1 /\ pc = "done") =>
        LET r == result[1]
            ph == SelectSeq(r.messages, IsPlaceholderEntry)
            user == IF debater1.model = USER THEN debater1 ELSE debater2
        IN  /\ Len(ph) = 1
            /\ ph[1].speaker = user.label
            /\ r.completed = FALSE

\* C3: in a one-to-one run, once the placeholder of a USER turn is in the
\* transcript it is the last entry: no call is in flight or issued after it,
\* the run is past its loop and has raised nothing, and the transcript is
\* [placeholder of debater 1] when debater 1 is USER and [debater 1's round-1
\* entry, placeholder of debater 2] when only debater 2 is; the returned
\* transcript is that transcript.
C3_PlaceholderEndsOneToOne ==
    (/\ format = ONE_TO_ONE
     /\ Len(participants) = 2
     /\ \E i \in 1..Len(messages) : IsPlaceholderEntry(messages[i])) =>
        /\ pending = <<>>
        /\ pc \in {"o2o_finish", "done"}
        /\ raised = "none"
        /\ iteration = 1
        /\ ncalls = Len(messages) - 1
        /\ Len(replies) = ncalls
        /\ IF debater1.model = USER
           THEN messages = <<[speaker |-> debater1.label,
                              content |-> AwaitingUserInput,
                              role |-> "user-pending", iteration |-> 1]>>
           ELSE /\ debater2.model = USER
                /\ Len(messages) = 2
                /\ IsGeneratedEntry(messages[1])
                /\ messages[1].speaker = debater1.label
                /\ messages[1].role = debater1.role
                /\ messages[1].iteration = 1
                /\ messages[2] = [speaker |-> debater2.label,
                                  content |-> AwaitingUserInput,
                                  role |-> "user-pending", iteration |-> 1]
        /\ pc = "done" => result[1].messages = messages

\* A returned one-to-one run of three rounds that stopped at debater 2's
\* placeholder in round 1.
C3_Witness ==
    /\ pc = "done"
    /\ format = ONE_TO_ONE
    /\ Len(participants) = 2
    /\ debater1.model # USER
    /\ debater2.model = USER
    /\ max_iterations = 3
    /\ Len(result[1].messages) = 2
    /\ IsPlaceholderEntry(result[1].messages[2])

\* The participant list does not have the number of participants the format
\* asks for.
ViolatesCardinality ==
    CASE format \in {ONE_TO_ONE, CROSS_EXAM} -> Len(participants) # 2
      [] format \in {MANY_ON_ONE, PANEL} -> Len(participants) < 2
      [] format = ROUND_ROBIN -> Len(participants) < 1

\* C4: with a participant list that violates the cardinality of the format,
\* run_debate issues no generation call, creates no transcript entry,
\* returns no result, and the only exception it ends in is ValueError.
C4_BadCardinalityIsValueError ==
    ViolatesCardinality =>
        /\ ncalls = 0
        /\ messages = <<>>
        /\ result = <<>>
        /\ raised \in {"none", "ValueError"}
        /\ pc \in {"done", "raised"} => raised = "ValueError"

\* [speaker, role, round] of an entry
Outline(msgs) ==
    [i \in 1..Len(msgs) |->
        [speaker |-> msgs[i].speaker, role |-> msgs[i].role,
         iteration |-> msgs[i].iteration]]

OutlineOf(p, r) == [speaker |-> p.label, role |-> p.role, iteration |-> r]
OutlineOfUser(p, r) == [speaker |-> p.label, role |-> "user-pending", iteration |-> r]
OutlineOfAll(ps, r) == [i \in 1..Len(ps) |-> OutlineOf(ps[i], r)]

\* The outline of the transcript of a run in which every call succeeds, from
\* the format, the participants and max_iterations alone.
RECURSIVE OutlineOfRounds(_)
OutlineOfRounds(r) ==
    IF r = 0
    THEN CASE format = CROSS_EXAM -> <<OutlineOf(participants[2], 0)>>
           [] format = MANY_ON_ONE -> <<OutlineOf(participants[1], 0)>>
           [] format = PANEL ->
                 IF participants[1].model = USER
                 THEN <<OutlineOfUser(participants[1], 0)>>
                 ELSE <<OutlineOf(participants[1], 0)>>
           [] OTHER -> <<>>
    ELSE OutlineOfRounds(r - 1) \o
         CASE format = ONE_TO_ONE ->
                 <<OutlineOf(participants[1], r), OutlineOf(participants[2], r)>>
           [] format = CROSS_EXAM ->
                 <<OutlineOf(participants[1], r), OutlineOf(participants[2], r)>>
           [] format = MANY_ON_ONE ->
                 OutlineOfAll(Tail(participants), r) \o
                 <<OutlineOf(participants[1], r)>>
           [] format = PANEL ->
                 OutlineOfAll(Tail(participants), r) \o
                 (IF r % 2 = 0 /\ participants[1].model # USER
                  THEN <<OutlineOf(participants[1], r)>>
                  ELSE <<>>)
           [] format = ROUND_ROBIN -> OutlineOfAll(participants, r)

OutlineWithoutFailure ==
    CASE format \in {ONE_TO_ONE, CROSS_EXAM} /\ Len(participants) # 2 -> <<>>
      [] format \in {MANY_ON_ONE, PANEL} /\ Len(participants) = 0 -> <<>>
      [] format = ONE_TO_ONE /\ max_iterations >= 1
            /\ participants[1].model = USER ->
            <<OutlineOfUser(participants[1], 1)>>
      [] format = ONE_TO_ONE /\ max_iterations >= 1
            /\ participants[1].model # USER /\ participants[2].model = USER ->
            <<OutlineOf(participants[1], 1), OutlineOfUser(participants[2], 1)>>
      [] OTHER -> OutlineOfRounds(Max(max_iterations, 0))

IsPrefix(s, t) == Len(s) <= Len(t) /\ s = SubSeq(t, 1, Len(s))

Failed(outcome) == outcome \in {"connection_error", "timeout", "request_error"}

\* C5: a generation call that fails raises nothing in the run: the entry of
\* that turn is appended with the participant's own speaker, role and round
\* and a placeholder text that carries the reason of the failure, and the run
\* goes on in the order of the format, so that at every step the outline of
\* the transcript is a prefix of the outline of the run without failure, and
\* the whole of it when the run returns.
C5_FailedCallBecomesPlaceholderEntry ==
    LET gen == SelectSeq(messages, IsGeneratedEntry)
    IN  /\ raised \notin {"OllamaConnectionError", "OllamaGenerationError"}
        /\ Len(gen) = Len(replies)
        /\ \A i \in 1..Len(replies) :
              Failed(replies[i]) =>
                /\ gen[i].content.kind = "error"
                /\ gen[i].content.reason = Generate(replies[i], i).msg
                /\ gen[i].content.reason # "none"
                /\ gen[i].role # "user-pending"
        /\ IsPrefix(Outline(messages), OutlineWithoutFailure)
        /\ pc = "done" => Outline(result[1].messages) = OutlineWithoutFailure

\* A returned round-robin run of two rounds whose third call timed out.
C5_Witness ==
    /\ pc = "done"
    /\ format = ROUND_ROBIN
    /\ Len(participants) = 2
    /\ max_iterations = 2
    /\ replies = <<"text", "text", "timeout", "text">>
    /\ Len(result[1].messages) = 4
    /\ result[1].messages[3].content.kind = "error"

\* C6 as stated: run_debate never ends in an exception, and what it returns
\* is a well-formed result.
C6_NeverRaises ==
    /\ raised = "none"
    /\ pc = "done" => result # <<>> /\ WellFormedResult(result[1])

\* C6, amended: no outcome of a generation call makes run_debate raise.  A run
\* that has issued a generation call raises nothing and, when it ends,
\* returns a well-formed result.  run_debate ends in an exception only
\* without having issued any call: ValueError for a one-to-one or
\* cross-examination list of other than 2 participants, IndexError for an
\* empty many-on-one or panel list, UnboundLocalError for max_iterations < 1
\* in one-to-one and in a panel whose moderator is USER.  A run that has not
\* ended can always take a step.
C6_OnlyConfigurationRaises ==
    /\ ncalls > 0 => raised = "none"
    /\ pc = "done" => raised = "none" /\ result # <<>> /\ WellFormedResult(result[1])
    /\ pc = "raised" => result = <<>> /\ raised # "none"
    /\ raised = "ValueError" =>
          format \in {ONE_TO_ONE, CROSS_EXAM} /\ Len(participants) # 2
    /\ raised = "IndexError" =>
          format \in {MANY_ON_ONE, PANEL} /\ participants = <<>>
    /\ raised = "UnboundLocalError" =>
          /\ max_iterations < 1
          /\ \/ format = ONE_TO_ONE
             \/ format = PANEL /\ participants[1].model = USER
    /\ raised \in {"none", "ValueError", "IndexError", "UnboundLocalError"}
    /\ pc \notin {"done", "raised"} => ENABLED Next

\* A returned many-on-one run in which a call ended in a connection error.
C6_Witness ==
    /\ pc = "done"
    /\ format = MANY_ON_ONE
    /\ Len(participants) = 3
    /\ max_iterations = 2
    /\ \E i \in 1..Len(replies) : replies[i] = "connection_error"
    /\ WellFormedResult(result[1])

\* C7: a cross-examination run of N = max_iterations >= 1 rounds returns
\* 1 + 2N entries: the examinee's opening with round 0, then for each round r
\* the examiner's question and the examinee's answer, both with round r; no
\* entry is a placeholder and completed is true.
C7_CrossExamTranscript ==
    (format = CROSS_EXAM /\ max_iterations >= 1 /\ pc = "done") =>
        LET m == result[1].messages
            N == max_iterations
        IN  /\ Len(m) = 1 + 2 * N
            /\ m[1].speaker = participants[2].label
            /\ m[1].role = participants[2].role
            /\ m[1].iteration = 0
            /\ \A r \in 1..N :
                  /\ m[2 * r].speaker = participants[1].label
                  /\ m[2 * r].role = participants[1].role
                  /\ m[2 * r].iteration = r
                  /\ m[2 * r + 1].speaker = participants[2].label
                  /\ m[2 * r + 1].role = participants[2].role
                  /\ m[2 * r + 1].iteration = r
            /\ \A i \in 1..Len(m) : IsGeneratedEntry(m[i])
            /\ result[1].completed = TRUE

\* A returned cross-examination of three rounds: seven entries.
C7_Witness ==
    /\ pc = "done"
    /\ format = CROSS_EXAM
    /\ max_iterations = 3
    /\ Len(result[1].messages) = 7

\* C8: in a many-on-one run with k >= 1 examiners, every round r appends the
\* k examiners' entries in list order and then one entry of the examinee, all
\* with round r; and the questions handed to the examinee in round r are the
\* speaker and the full content of exactly the k examiner entries of round r,
\* in order.
C8_ManyOnOneRounds ==
    (format = MANY_ON_ONE /\ Len(participants) >= 2) =>
        LET k == Len(participants) - 1
        IN  /\ pc = "done" =>
                LET m == result[1].messages
                IN  /\ Len(m) = 1 + Max(max_iterations, 0) * (k + 1)
                    /\ \A r \in 1..max_iterations :
                          /\ \A j \in 1..k :
                                m[1 + (r - 1) * (k + 1) + j] =
                                    [speaker |-> participants[j + 1].label,
                                     content |-> m[1 + (r - 1) * (k + 1) + j].content,
                                     role |-> participants[j + 1].role,
                                     iteration |-> r]
                          /\ m[1 + r * (k + 1)] =
                                [speaker |-> participants[1].label,
                                 content |-> m[1 + r * (k + 1)].content,
                                 role |-> participants[1].role,
                                 iteration |-> r]
            /\ pc = "mo_recv_answer" =>
                /\ Len(messages) = 1 + (iteration - 1) * (k + 1) + k
                /\ pending[1].speaker = participants[1].label
                /\ pending[1].other =
                      [j \in 1..k |->
                          [speaker |-> participants[j + 1].label,
                           content |-> messages[Len(messages) - k + j].content]]
                /\ \A j \in 1..k :
                      messages[Len(messages) - k + j].iteration = iteration

\* The examinee's call of round 2 is in flight, with two examiners.
C8_Witness ==
    /\ pc = "mo_recv_answer"
    /\ format = MANY_ON_ONE
    /\ Len(participants) = 3
    /\ iteration = 2
    /\ Len(pending[1].other) = 2

\* Entries of a panel transcript up to the end of round r, with p panelists
\* and a moderator who summarizes.
PanelEntriesThrough(r, p) == 1 + r * p + (r \div 2)

\* C9: in a panel run with a moderator who is not USER and p >= 1 panelists,
\* the returned transcript is the moderator's opening (round 0) followed,
\* for each round r, by the p panelists' entries in list order and, when r is
\* even, one entry of the moderator right after them, all with round r; the
\* moderator has no other entry.
C9_PanelModeratorTurns ==
    (/\ format = PANEL
     /\ Len(participants) >= 2
     /\ participants[1].model # USER
     /\ pc = "done") =>
        LET m == result[1].messages
            p == Len(participants) - 1
            N == Max(max_iterations, 0)
            E(r) == PanelEntriesThrough(r, p)
            modAt == {1} \cup {E(r) : r \in {x \in 1..N : x % 2 = 0}}
        IN  /\ Len(m) = E(N)
            /\ \A i \in modAt :
                  /\ m[i].speaker = participants[1].label
                  /\ m[i].role = participants[1].role
            /\ m[1].iteration = 0
            /\ \A r \in 1..N :
                  /\ \A j \in 1..p :
                        /\ m[E(r - 1) + j].speaker = participants[j + 1].label
                        /\ m[E(r - 1) + j].role = participants[j + 1].role
                        /\ m[E(r - 1) + j].iteration = r
                  /\ r % 2 = 0 => m[E(r)].iteration = r
            /\ \A i \in 1..Len(m) :
                  m[i].speaker = participants[1].label => i \in modAt

\* A returned panel of three rounds with two panelists: the moderator speaks
\* first and after round 2, and round 3 ends the transcript with a panelist.
C9_Witness ==
    /\ pc = "done"
    /\ format = PANEL
    /\ Len(participants) = 3
    /\ participants[1].model # USER
    /\ max_iterations = 3
    /\ Len(result[1].messages) = 8
    /\ result[1].messages[6].speaker = participants[1].label
    /\ result[1].messages[8].speaker = participants[3].label

\* C10: in a panel run whose moderator is USER, no generation call is ever
\* issued for the moderator, the transcript starts with the moderator's
\* placeholder (round 0), which stays the moderator's only entry, and the
\* returned transcript is that placeholder followed by the p panelists'
\* entries, in list order, for each of the max_iterations rounds.
C10_UserModeratorPanel ==
    (/\ format = PANEL
     /\ Len(participants) >= 1
     /\ participants[1].model = USER) =>
        LET p == Len(participants) - 1
        IN  /\ pending # <<>> => pending[1].speaker # participants[1].label
            /\ \A i \in 2..Len(messages) :
                  messages[i].speaker # participants[1].label
            /\ ncalls = Len(replies) + Len(pending)
            /\ Len(replies) = Len(messages) - 1 \/ messages = <<>>
            /\ pc = "done" =>
                LET m == result[1].messages
                IN  /\ Len(m) = 1 + max_iterations * p
                    /\ m[1] = [speaker |-> participants[1].label,
                               content |-> AwaitingModeratorOpening,
                               role |-> "user-pending", iteration |-> 0]
                    /\ \A r \in 1..max_iterations : \A j \in 1..p :
                          /\ m[1 + (r - 1) * p + j].speaker = participants[j + 1].label
                          /\ m[1 + (r - 1) * p + j].role = participants[j + 1].role
                          /\ m[1 + (r - 1) * p + j].iteration = r
                          /\ IsGeneratedEntry(m[1 + (r - 1) * p + j])

\* A returned panel of two rounds with a USER moderator and two panelists:
\* the placeholder and four panelist entries, four calls.
C10_Witness ==
    /\ pc = "done"
    /\ format = PANEL
    /\ Len(participants) = 3
    /\ participants[1].model = USER
    /\ max_iterations = 2
    /\ Len(result[1].messages) = 5
    /\ ncalls = 4

----------------------------------------------------------------------------
\* C11 as stated: in every format the returned convergenceReached is true
\* exactly when the agreementScore of the returned metrics is at least 8
\* (80 tenths).
C11_ConvergenceIffThreshold ==
    pc = "done" =>
        (result[1].convergenceReached <=> result[1].metrics.agreementScore >= 80)

\* C11, amended: a one-to-one, panel or round-robin run returns
\* convergenceReached true exactly when the agreementScore of the returned
\* metrics is at least 8; a cross-examination or many-on-one run returns
\* convergenceReached false whatever the agreementScore is.
C11_ConvergenceByFormat ==
    pc = "done" =>
        IF format \in {CROSS_EXAM, MANY_ON_ONE}
        THEN result[1].convergenceReached = FALSE
        ELSE result[1].convergenceReached <=>
                result[1].metrics.agreementScore >= 80

\* A returned round-robin run of six rounds: agreementScore 8.0 and
\* convergenceReached true.
C11_Witness ==
    /\ pc = "done"
    /\ format = ROUND_ROBIN
    /\ Len(participants) = 2
    /\ max_iterations = 6
    /\ result[1].metrics.agreementScore = 80
    /\ result[1].convergenceReached = TRUE

----------------------------------------------------------------------------
\* C12: for every round index >= 0 the estimator returns
\* agreementScore = min(5 + 0.5 * index, 10) (in tenths: 50 + 5 * index up to
\* index 10, then 100), convergenceStatus Converging when the score is above
\* 7 and Diverging otherwise, the round index it was given, and the same
\* emotionalSensitivity, biasLevel and topicDrift for every input; index 6
\* gives 8.0 and Converging, index 4 gives 7.0 and Diverging.
C12_HeuristicEstimator ==
    pc = "analyzed" =>
        LET m == result[1]
        IN  /\ m.iteration = iteration
            /\ m.agreementScore = (IF iteration >= 10 THEN 100 ELSE 50 + 5 * iteration)
            /\ m.agreementScore \in 50..100
            /\ m.convergenceStatus \in {"Converging", "Diverging"}
            /\ m.convergenceStatus = "Converging" <=> m.agreementScore > 70
            /\ iteration = 6 =>
                  m.agreementScore = 80 /\ m.convergenceStatus = "Converging"
            /\ iteration = 4 =>
                  m.agreementScore = 70 /\ m.convergenceStatus = "Diverging"
            /\ m.emotionalSensitivity = "Medium"
            /\ m.biasLevel = "Neutral"
            /\ m.topicDrift = "Low"

\* The estimator has been applied to round index 4: 7.0 and Diverging.
C12_Witness ==
    /\ pc = "analyzed"
    /\ iteration = 4
    /\ messages # <<>>
    /\ result[1].agreementScore = 70
    /\ result[1].convergenceStatus = "Diverging"

----------------------------------------------------------------------------
\* C15: extraction yields a statement for an entry exactly when the entry's
\* first sentence has at least 20 characters, in the order of the entries;
\* the text of the statement is the first sentence cut to at most 100
\* characters, so a first sentence of exactly 20 characters is kept.
C15_KeptFromTwentyChars ==
    pc = "extracted" =>
        LET kept == SelectSeq(messages,
                        LAMBDA m : FirstSentenceLen(m.content) >= 20)
        IN  /\ Len(key_statements) = Len(kept)
            /\ \A i \in 1..Len(kept) :
                  /\ key_statements[i].speaker = kept[i].speaker
                  /\ key_statements[i].text.of = kept[i].content
                  /\ key_statements[i].text.len =
                        Min(FirstSentenceLen(kept[i].content), 100)
                  /\ key_statements[i].text.len <= 100

\* "AI is powerful. It changes everything.": 14 characters, a period, and 23
\* more characters.
AIIsPowerful == LiteralText(14, TRUE, 23)

\* C16 as stated: extraction from the one entry "AI is powerful. It changes
\* everything." at round 2 yields exactly one statement, whose text is the
\* first sentence with its period (15 characters) and whose round is 2.
C16_ShortSentenceKept ==
    (/\ pc = "extracted"
     /\ Len(messages) = 1
     /\ messages[1].content = AIIsPowerful
     /\ iteration = 2) =>
        key_statements =
            <<[speaker |-> messages[1].speaker,
               text |-> [of |-> AIIsPowerful, len |-> 15],
               iteration |-> 2]>>

\* C16, amended: extraction from the one entry "AI is powerful. It changes
\* everything." at round 2 yields no statement, its first sentence having 15
\* characters; from one entry whose first sentence ends in a period, has
\* more than 20 and at most 100 characters and is followed by a second
\* sentence it yields exactly one statement, whose text is the first
\* sentence with its period and whose round is 2.
C16_ShortSentenceDropped ==
    (pc = "extracted" /\ Len(messages) = 1 /\ iteration = 2) =>
        LET c == messages[1].content
        IN  /\ c = AIIsPowerful => key_statements = <<>>
            /\ (c.period /\ c.rest > 0 /\ c.head + 1 \in 21..100) =>
                  key_statements =
                      <<[speaker |-> messages[1].speaker,
                         text |-> [of |-> c, len |-> c.head + 1],
                         iteration |-> 2]>>

\* Extraction has been applied to the entry "AI is powerful. It changes
\* everything." at round 2.
C16_Witness ==
    /\ pc = "extracted"
    /\ Len(messages) = 1
    /\ messages[1].content = AIIsPowerful
    /\ iteration = 2
    /\ key_statements = <<>>

----------------------------------------------------------------------------
\* What the generator's response held when the analysis returned.
ParsedScore == replies[1].body.agreementScore
ParsedBlock == replies[1].body.block

\* C13: the metrics the delegated analysis returns have an agreementScore
\* within [0, 10] (0..100 tenths); when the parsed block holds an
\* agreementScore outside [0, 10] the response is the baseline (success =
\* false, agreementScore 0), and no out-of-range score comes with
\* success = true.
C13_ScoreWithinRange ==
    pc = "an_done" =>
        LET r == result[1]
        IN  /\ r.metrics.agreementScore \in 0..100
            /\ (/\ replies[1].outcome = "text"
                /\ ParsedBlock = "object"
                /\ ParsedScore.kind = "number"
                /\ ParsedScore.tenths \notin 0..100) =>
                    /\ r.success = FALSE
                    /\ r.metrics.agreementScore = 0

\* C14: when the generator call fails, or its response holds no
\* brace-delimited block, or the block does not parse, the analysis returns
\* success = false, an error message, and metrics with agreementScore 0 and
\* the round index of the request; nothing is raised.
C14_MalformedAnalysisIsBaseline ==
    /\ pc \in {"an_start", "an_recv", "an_done"} => raised = "none"
    /\ pc = "an_done" =>
        LET r == result[1]
        IN  (\/ Failed(replies[1].outcome)
             \/ ParsedBlock \in {"none", "invalid"}) =>
                /\ r.success = FALSE
                /\ r.error # "none"
                /\ r.metrics.agreementScore = 0
                /\ r.metrics.iteration = iteration

\* The analysis of round 7 has returned on a response whose block does not
\* parse.
C14_Witness ==
    /\ pc = "an_done"
    /\ iteration = 7
    /\ Len(messages) = 2
    /\ replies[1].outcome = "text"
    /\ ParsedBlock = "invalid"
    /\ result[1].success = FALSE

----------------------------------------------------------------------------
\* The entries of the rounds lo..hi, and the statements stamped with round r.
EntriesOfRounds(msgs, lo, hi) ==
    SelectSeq(msgs, LAMBDA m : m.iteration \in lo..hi)
StatementsOfRound(ks, r) == SelectSeq(ks, LAMBDA k : k.iteration = r)

\* C17: in every format, when a round is complete the key statements of that
\* round have been extracted from the entries the round produced (in
\* one-to-one: when an even iteration is complete, from the entries of the
\* last two iterations).  Stated of the runs whose participant list has the
\* number of participants the format asks for.
C17_ExtractionAfterEachRound ==
    ~ViolatesCardinality =>
    /\ (pc \in {"ce_loop", "mo_loop", "pn_loop", "rr_loop"} /\ iteration >= 1) =>
          StatementsOfRound(key_statements, iteration) =
              ExtractKeyStatements(
                  EntriesOfRounds(messages, iteration, iteration), iteration)
    /\ (pc = "o2o_loop" /\ iteration >= 2 /\ iteration % 2 = 0) =>
          StatementsOfRound(key_statements, iteration) =
              ExtractKeyStatements(
                  EntriesOfRounds(messages, iteration - 1, iteration), iteration)

\* C18: in every format the metrics estimation is invoked at most once, and
\* once invoked the run has ended and the transcript it was handed is the
\* whole transcript, last entry (a placeholder too) included; a run that
\* returns has invoked it exactly once, on the transcript it returns, and the
\* metrics it returns are the estimator's for the round index handed over.
C18_MetricsOnceAtEnd ==
    /\ Len(analyzed) <= 1
    /\ analyzed # <<>> =>
          /\ pc \in {"done", "raised"}
          /\ pending = <<>>
          /\ analyzed[1].messages = messages
    /\ pc = "done" =>
          /\ Len(analyzed) = 1
          /\ result[1].messages = analyzed[1].messages
          /\ result[1].metrics.iteration = analyzed[1].iteration
          /\ result[1].metrics.agreementScore =
                Min(50 + 5 * analyzed[1].iteration, 100)
          /\ analyzed[1].iteration =
                (IF format = ONE_TO_ONE THEN iteration ELSE max_iterations)

\* A returned one-to-one run that was suspended at debater 2's placeholder:
\* the estimation was handed both entries.
C18_Witness ==
    /\ pc = "done"
    /\ format = ONE_TO_ONE
    /\ max_iterations = 2
    /\ Len(analyzed) = 1
    /\ Len(analyzed[1].messages) = 2
    /\ IsPlaceholderEntry(analyzed[1].messages[2])
    /\ result[1].metrics.iteration = 1

\* C19: the context handed to the prompt of a generated turn is never the
\* empty string, and it is the "(No previous context)" sentinel when the
\* transcript has no entry yet.  Stated of the turns whose prompt takes its
\* context from the transcript (the debaters', examiners', examinees',
\* panelists' and round-robin speakers' turns after the initial statement).
C19_ContextNeverEmpty ==
    (/\ pending # <<>>
     /\ pending[1].template \in
            {"ONE_TO_ONE_DEBATE_PROMPT", "CROSS_EXAMINATION_PROMPT",
             "MANY_ON_ONE_PROMPT", "PANEL_DISCUSSION_PROMPT",
             "ROUND_ROBIN_PROMPT"}) =>
        /\ pending[1].context # EmptyString
        /\ messages = <<>> => pending[1].context.kind = "no_previous_context"

\* C20: when the moderator's summary is being generated in a panel run, the
\* context of its prompt holds every entry of the transcript so far, in
\* order, each with its whole content.  Stated of the panels with a moderator
\* and at least one panelist.
C20_ModeratorSeesWholeTranscript ==
    (pc = "pn_recv_summary" /\ ~ViolatesCardinality) =>
        LET e == pending[1].context.entries
        IN  /\ Len(e) = Len(messages)
            /\ \A i \in 1..Len(e) :
                  /\ e[i].speaker = messages[i].speaker
                  /\ e[i].content = messages[i].content
                  /\ "cut" \notin DOMAIN e[i]

----------------------------------------------------------------------------
\* The templates of the moderator's prompts, in the engine and in the
\* single-turn variant.
ModeratorTemplates ==
    {"MODERATOR_PROMPT", "final_summary", "moderator_opening", "moderation"}

\* The N of the claim for the turn whose call is in flight; the turns the
\* claim does not list (initial statements, openings) place no entry in
\* their prompt.
ContextWindow(req) ==
    CASE req.template \in {"ONE_TO_ONE_DEBATE_PROMPT", "CROSS_EXAMINATION_PROMPT",
                           "examiner", "examinee", "debater"} -> 3
      [] req.template = "PANEL_DISCUSSION_PROMPT" -> 5
      [] req.template = "MANY_ON_ONE_PROMPT" ->
            IF idx <= Len(examiners) THEN 5 ELSE 10
      [] req.template = "ROUND_ROBIN_PROMPT" -> Len(participants)
      [] OTHER -> 0

\* C21: the context in the prompt of every non-moderator turn is the last k
\* entries of the transcript so far, in transcript order, with k at most N
\* (3 in one-to-one, cross-examination and the single-turn variant, 5 for
\* many-on-one examiners and panelists, 10 for the many-on-one examinee, the
\* number of participants in round robin), and the content of each entry is
\* cut to a budget of at most 300 characters.
C21_BoundedContextWindow ==
    (pending # <<>> /\ pending[1].template \notin ModeratorTemplates) =>
        LET e == pending[1].context.entries
            k == Len(e)
        IN  /\ k <= ContextWindow(pending[1])
            /\ k <= Len(messages)
            /\ \A i \in 1..k :
                  /\ e[i].speaker = messages[Len(messages) - k + i].speaker
                  /\ e[i].content = messages[Len(messages) - k + i].content
                  /\ "cut" \in DOMAIN e[i]
                  /\ e[i].cut <= 300

\* The many-on-one examinee's call of a round in which the transcript has
\* more than 10 entries: its context holds the last 10.
C21_Witness ==
    /\ pc = "mo_recv_answer"
    /\ Len(messages) > 10
    /\ Len(pending[1].context.entries) = 10
    /\ pending[1].context.entries[1].content = messages[Len(messages) - 9].content

----------------------------------------------------------------------------
\* C22: no generation call is issued with USER as its model: in every format
\* the turn of a USER participant leads to a placeholder, never to a call.
\* Stated of the runs whose participant list has the number of participants
\* the format asks for.
C22_NoCallToUser ==
    (pending # <<>> /\ ~ViolatesCardinality) => pending[1].model # USER

----------------------------------------------------------------------------
\* C23: in a one-to-one run of max_iterations >= 1 rounds without USER
\* participants, round r appends debater 1's entry and then debater 2's, both
\* with round r, so that the returned transcript has 2 * max_iterations
\* entries; the opponent statement in the prompt of a turn is the content of
\* the last entry of the transcript, and it is the opening marker only for
\* debater 1's turn of round 1.
C23_OneToOneAlternation ==
    (/\ format = ONE_TO_ONE
     /\ Len(participants) = 2
     /\ ~has_user
     /\ max_iterations >= 1) =>
        /\ pc = "done" =>
              LET m == result[1].messages
              IN  /\ Len(m) = 2 * max_iterations
                  /\ \A r \in 1..max_iterations :
                        /\ Outline(m)[2 * r - 1] = OutlineOf(debater1, r)
                        /\ Outline(m)[2 * r] = OutlineOf(debater2, r)
        /\ pending # <<>> =>
              /\ pending[1].other =
                    (IF messages = <<>>
                     THEN OpeningStatementMarker
                     ELSE messages[Len(messages)].content)
              /\ pending[1].other = OpeningStatementMarker =>
                    (pc = "o2o_recv1" /\ iteration = 1)

----------------------------------------------------------------------------
\* The rounds of the entries a context was built from: the last k entries of
\* the transcript, k being the number of entries of the context.
RoundsInContext(req) ==
    LET k == Len(req.context.entries)
    IN  [i \in 1..k |-> messages[Len(messages) - k + i].iteration]

\* The entries of a returned round-robin transcript: one per participant, in
\* list order, in each round, and completed = true.
RoundRobinTranscript ==
    pc = "done" =>
        LET m == result[1].messages
            n == Len(participants)
        IN  /\ Len(m) = n * max_iterations
            /\ \A r \in 1..max_iterations : \A j \in 1..n :
                  Outline(m)[(r - 1) * n + j] = OutlineOf(participants[j], r)
            /\ result[1].completed = TRUE

\* C24 as stated: in a round-robin run with n >= 1 participants every round
\* appends one entry per participant in list order (n * max_iterations
\* entries, completed = true), and the context of every turn of a round
\* r >= 2 holds entries of round r - 1 only.
C24_ContextIsPreviousRound ==
    (format = ROUND_ROBIN /\ Len(participants) >= 1) =>
        /\ RoundRobinTranscript
        /\ (pc = "rr_recv" /\ iteration >= 2) =>
              \A i \in DOMAIN RoundsInContext(pending[1]) :
                  RoundsInContext(pending[1])[i] = iteration - 1

\* C24, amended: in a round-robin run with n >= 1 participants every round
\* appends one entry per participant in list order (n * max_iterations
\* entries, completed = true), and the context of the j-th turn of a round is
\* the last n entries of the transcript so far (all of them while there are
\* fewer): in a round r >= 2, the entries of the participants j..n of round
\* r - 1 followed by the entries of the participants 1..j-1 of round r, so
\* that only the first speaker of a round is handed the previous round alone.
C24_ContextIsLastNEntries ==
    (format = ROUND_ROBIN /\ Len(participants) >= 1) =>
        /\ RoundRobinTranscript
        /\ pc = "rr_recv" =>
              LET n == Len(participants)
                  e == pending[1].context.entries
                  k == Len(e)
              IN  /\ k = Min(n, Len(messages))
                  /\ \A i \in 1..k :
                        /\ e[i].speaker = messages[Len(messages) - k + i].speaker
                        /\ e[i].content = messages[Len(messages) - k + i].content
                  /\ iteration >= 2 =>
                        /\ k = n
                        /\ \A i \in 1..n :
                              /\ RoundsInContext(pending[1])[i] =
                                    (IF i <= n - idx + 1
                                     THEN iteration - 1 ELSE iteration)
                              /\ e[i].speaker =
                                    participants[((idx + i - 2) % n) + 1].label

\* The second of three participants is about to speak in round 2: the
\* context holds two entries of round 1 and one of round 2.
C24_Witness ==
    /\ pc = "rr_recv"
    /\ format = ROUND_ROBIN
    /\ Len(participants) = 3
    /\ iteration = 2
    /\ idx = 2
    /\ RoundsInContext(pending[1]) = <<1, 1, 2>>

----------------------------------------------------------------------------
\* C25: within a run at most one generation call is in flight; the entry of
\* every call that has returned is in the transcript before the next call is
\* issued; and in many-on-one the examinee's call of a round is in flight
\* only when the entries of all the examiners of that round are the last
\* entries of the transcript, in list order.
C25_SequentialCalls ==
    /\ Len(pending) <= 1
    /\ ncalls - Len(replies) = Len(pending)
    /\ Len(SelectSeq(messages, IsGeneratedEntry)) = Len(replies)
    /\ pc = "mo_recv_answer" =>
          LET k == Len(examiners)
          IN  /\ pending[1].speaker = mo_examinee.label
              /\ Len(messages) >= k + 1
              /\ \A j \in 1..k :
                    Outline(messages)[Len(messages) - k + j] =
                        OutlineOf(examiners[j], iteration)

\* The examinee's call of round 2 is in flight after two examiners; the
\* five calls before it have returned and their entries are in the
\* transcript.
C25_Witness ==
    /\ pc = "mo_recv_answer"
    /\ Len(examiners) = 2
    /\ iteration = 2
    /\ ncalls = 7
    /\ Len(replies) = 6
    /\ Len(messages) = 6

----------------------------------------------------------------------------
\* C27: a run issues exactly one generation call for each turn it generates,
\* whether the call succeeds or fails, and reuses no earlier result: the
\* calls issued are as many as the non-placeholder entries of the transcript
\* (plus the call in flight), the i-th such entry carries what the i-th call
\* ended in, and a run that returns has issued as many calls as its
\* transcript has non-placeholder entries.
C27_OneCallPerEntry ==
    LET gen == SelectSeq(messages, IsGeneratedEntry)
    IN  /\ ncalls = Len(gen) + Len(pending)
        /\ \A i \in 1..Len(gen) :
              gen[i].content = GenerateWithParams(replies[i], i).text
        /\ pc = "done" =>
              ncalls = Len(SelectSeq(result[1].messages, IsGeneratedEntry))

\* A returned cross-examination of two rounds whose second call timed out:
\* five entries, five calls.
C27_Witness ==
    /\ pc = "done"
    /\ format = CROSS_EXAM
    /\ max_iterations = 2
    /\ replies = <<"text", "timeout", "text", "text", "text">>
    /\ ncalls = 5
    /\ Len(result[1].messages) = 5
    /\ result[1].messages[2].content.kind = "error"

----------------------------------------------------------------------------
\* C28: every step of a run leaves the transcript as it is or adds one entry
\* at its end, so that no entry is ever modified, reordered or removed; the
\* step that builds a context and issues a call leaves the transcript as it
\* is; and the transcript returned is the transcript built.
C28_AppendOnly ==
    [][/\ \/ messages' = messages
          \/ /\ Len(messages') = Len(messages) + 1
             /\ SubSeq(messages', 1, Len(messages)) = messages
       /\ (pending = <<>> /\ pending' # <<>>) => messages' = messages
       /\ pc' = "done" => result'[1].messages = messages']_vars

\* The third speaker's call of a round-robin round is in flight: its context
\* holds cut copies of the two entries of the transcript, which are whole.
C28_Witness ==
    /\ pc = "rr_recv"
    /\ Len(participants) = 3
    /\ iteration = 1
    /\ idx = 3
    /\ Len(messages) = 2
    /\ pending[1].context.entries[1].cut = ContextBudget
    /\ pending[1].context.entries[1].content = messages[1].content
    /\ "cut" \notin DOMAIN messages[1]

----------------------------------------------------------------------------
----------------------------------------------------------------------------
\* The level a gain is clamped to.
ClampedLevel(g) == IF g < 1 THEN 1 ELSE IF g > 10 THEN 10 ELSE g

\* C30: the parameters derived for a gain are those of the level the gain is
\* clamped to (level 1 for every gain below 1, level 10 for every gain above
\* 10); for levels g < h the temperature, top_p and top_k of g are each
\* strictly lower than those of h; and changing the returned parameters
\* leaves the table as it was, so that a later turn gets the parameters of
\* its level.
C30_ClampedMonotonicCopy ==
    /\ \A g \in 1..10 : \A h \in 1..10 :
          g < h =>
              \A key \in SamplingKeys :
                  gain_to_params[g][key] < gain_to_params[h][key]
    /\ gain_to_params = GAIN_TO_PARAMS
    /\ pc \in {"returned", "later"} =>
          /\ result[1].value = GAIN_TO_PARAMS[ClampedLevel(gain)]
          /\ gain < 1 => result[1].value = GAIN_TO_PARAMS[1]
          /\ gain > 10 => result[1].value = GAIN_TO_PARAMS[10]

\* A later turn of gain 12 has got the parameters of level 10 after the
\* parameters returned before were changed.
C30_Witness ==
    /\ pc = "later"
    /\ gain = 12
    /\ result[1].value = [temperature |-> 120, top_p |-> 99, top_k |-> 80]

----------------------------------------------------------------------------
OwnLabels(ps) == {ps[i].label : i \in DOMAIN ps}

\* Every entry of the transcript, of the context of the call in flight, of
\* the returned transcript and of the key statements of a run is an entry of
\* one of the run's own participants.
RunIsolated(run) ==
    /\ \A i \in DOMAIN run.messages :
          run.messages[i].speaker \in OwnLabels(run.participants)
    /\ run.pending # <<>> =>
          /\ run.pending[1].speaker \in OwnLabels(run.participants)
          /\ \A i \in DOMAIN run.pending[1].context.entries :
                run.pending[1].context.entries[i].speaker
                    \in OwnLabels(run.participants)
    /\ \A i \in DOMAIN run.key_statements :
          run.key_statements[i].speaker \in OwnLabels(run.participants)
    /\ run.result # <<>> =>
          /\ run.result[1].participants = run.participants
          /\ \A i \in DOMAIN run.result[1].messages :
                run.result[1].messages[i].speaker \in OwnLabels(run.participants)

\* The key statements of a one-to-one run of r whole rounds: after every
\* even round, those of the last four entries.
RECURSIVE OneToOneKeyStatements(_, _)
OneToOneKeyStatements(m, r) ==
    IF r = 0 THEN <<>>
    ELSE OneToOneKeyStatements(m, r - 1) \o
         (IF r % 2 = 0
          THEN ExtractKeyStatements(SubSeq(m, 2 * r - 3, 2 * r), r)
          ELSE <<>>)

\* The result of the run taking steps is the result of its arguments and of
\* what its own calls ended in.
ResultAsAlone ==
    LET r == result[1]
        m == r.messages
        gen == SelectSeq(m, IsGeneratedEntry)
        suspends == format = ONE_TO_ONE /\ has_user
        it == IF suspends THEN 1 ELSE max_iterations
    IN  /\ r.topic = Topic
        /\ r.format = format
        /\ r.participants = participants
        /\ Outline(m) = OutlineWithoutFailure
        /\ Len(gen) = Len(replies)
        /\ \A i \in 1..Len(gen) :
              gen[i].content = GenerateWithParams(replies[i], i).text
        /\ \A i \in 1..Len(m) :
              IsPlaceholderEntry(m[i]) =>
                  m[i].content = (IF format = PANEL
                                  THEN AwaitingModeratorOpening
                                  ELSE AwaitingUserInput)
        /\ r.metrics = AnalyzeDebate(m, it)
        /\ r.keyStatements =
              (IF format = ONE_TO_ONE
               THEN OneToOneKeyStatements(m, IF suspends THEN 0 ELSE max_iterations)
               ELSE ExtractKeyStatements(m, max_iterations))
        /\ r.completed = (suspends => 1 >= max_iterations)
        /\ r.convergenceReached =
              (format \notin {CROSS_EXAM, MANY_ON_ONE} /\ ConvergenceReached(r.metrics))

\* C26: with the steps of two runs on the same Facilitator interleaved in any
\* way, the transcript, the context of the call in flight, the key
\* statements and the result of each run hold entries of its own
\* participants only, and the result a run returns is the one its arguments
\* and the outcomes of its own calls give, which is the result of the run
\* executed alone.  (The run held in `suspended` takes the place of the run
\* taking steps at any moment, so what is stated of the latter holds of
\* both.)
C26_RunsAreIndependent ==
    /\ RunIsolated(RunState)
    /\ suspended # <<>> => RunIsolated(suspended[1])
    /\ pc = "done" => ResultAsAlone

\* Two runs midway, each with entries in its transcript and a call in
\* flight: a round robin and a cross-examination.
C26_Witness ==
    /\ suspended # <<>>
    /\ format = ROUND_ROBIN
    /\ pc = "rr_recv"
    /\ Len(messages) = 1
    /\ suspended[1].format = CROSS_EXAM
    /\ suspended[1].pc = "ce_recv_question"
    /\ Len(suspended[1].messages) = 1
    /\ suspended[1].messages[1].speaker # messages[1].speaker

----------------------------------------------------------------------------
\* C31: run_debate does not change its inputs.  No step of a run changes the
\* format, the participant list (its members, their order, any field of a
\* ParticipantConfig), max_iterations or the gain, and the result a run
\* returns carries the topic and the participant list it was handed and the
\* format that was requested.
C31_InputsUnchanged ==
    [][/\ format' = format
       /\ participants' = participants
       /\ max_iterations' = max_iterations
       /\ gain' = gain
       /\ (result = <<>> /\ result' # <<>>) =>
            /\ result'[1].topic = Topic
            /\ result'[1].participants = participants
            /\ result'[1].format = format]_vars

\* A returned panel run of two rounds with three participants, the moderator
\* first: the result lists the three in the order of the request.
C31_Witness ==
    /\ pc = "done"
    /\ format = PANEL
    /\ max_iterations = 2
    /\ Len(participants) = 3
    /\ Len(result[1].messages) = 6
    /\ result[1].format = PANEL
    /\ Len(result[1].participants) = 3
    /\ result[1].participants[1].label = "P1"
    /\ result[1].participants[3].label = "P3"

----------------------------------------------------------------------------
\* C32: the baseline metrics returned when the delegated analysis fails
\* have every ordinal field at its lowest level: emotionalSensitivity = Low,
\* biasLevel = Low (BiasLevel is LOW, NEUTRAL, HIGH) and topicDrift = Low.
C32_BaselineOrdinalsLowest ==
    (pc = "an_done" /\ result[1].success = FALSE) =>
        /\ result[1].metrics.emotionalSensitivity = "Low"
        /\ result[1].metrics.biasLevel = "Low"
        /\ result[1].metrics.topicDrift = "Low"

----------------------------------------------------------------------------
\* C33: in every run, the status of the returned metrics agrees with the
\* returned completed flag: status is "Completed" exactly when completed is
\* true and "In Progress" exactly when completed is false, for every
\* max_iterations (below and above MAX_DEBATE_ITERATIONS).
C33_StatusAgreesWithCompleted ==
    pc = "done" =>
        /\ result[1].metrics.status \in {"Completed", "In Progress"}
        /\ (result[1].metrics.status = "Completed") <=> (result[1].completed = TRUE)

----------------------------------------------------------------------------
\* C34: the control skeleton of a run is independent of generated content.
\* Two runs with the same format, participants and max_iterations, whatever
\* the generator answers or fails to answer in each, return transcripts with
\* the same sequence of (speaker, role, round), the same metrics, the same
\* completed flag and the same convergenceReached.
C34_SkeletonIndependentOfContent ==
    (suspended # <<>> /\ pc = "done") =>
        ControlSkeleton(result[1]) = suspended[1].returned

\* The second of two many-on-one runs of two rounds has returned; every call
\* of the first was answered with a text, and in the second a call timed out
\* and left an error placeholder in the transcript.
C34_Witness ==
    /\ suspended # <<>>
    /\ pc = "done"
    /\ format = MANY_ON_ONE
    /\ Len(participants) = 3
    /\ max_iterations = 2
    /\ suspended[1].unusual = 0
    /\ \E i \in 1..Len(replies) : replies[i] = "timeout"
    /\ \E i \in 1..Len(result[1].messages) :
          result[1].messages[i].content.kind = "error"
    /\ Len(suspended[1].returned.transcript) = 7

----------------------------------------------------------------------------
\* C35: with max_iterations = 0 and a participant list the format accepts,
\* run_debate of every format raises no exception and returns a well-formed
\* result whose transcript holds only the round-0 opening entries of the
\* format (none for one-to-one and round robin), also when a one-to-one or
\* panel participant is USER.
C35_ZeroRoundsReturns ==
    (max_iterations = 0 /\ ~ViolatesCardinality) =>
        /\ raised = "none"
        /\ pc # "raised"
        /\ pc = "done" =>
              /\ WellFormedResult(result[1])
              /\ Outline(result[1].messages) = OutlineOfRounds(0)
              /\ \A i \in 1..Len(result[1].messages) :
                    result[1].messages[i].iteration = 0

----------------------------------------------------------------------------
\* The entries appended so far in the round under way.
CurrentRoundEntries == SelectSeq(messages, LAMBDA m : m.iteration = iteration)

\* C36: the per-round batch handed onward is exactly the current round's
\* entries for every cast size the code accepts.  In many-on-one the
\* question list of the examinee's call, and in panel the input of the
\* moderator's summary, hold the entries the examiners or panelists appended
\* in the current round and no other; with zero examiners or zero panelists
\* the batch is empty.
C36_BatchIsCurrentRound ==
    /\ (pc = "mo_recv_answer" /\ pending # <<>>) =>
          /\ pending[1].other = SpeakerAndContent(CurrentRoundEntries)
          /\ Len(pending[1].other) = Len(examiners)
    /\ (pc = "pn_recv_summary" /\ pending # <<>>) =>
          /\ pending[1].context.entries =
                SpeakerAndContentCut(CurrentRoundEntries, SummaryBudget)
          /\ Len(pending[1].context.entries) = Len(panelists)

----------------------------------------------------------------------------
\* Statement k is derived from entry m and carries m's speaker and round.
CarriesEntry(k, m) ==
    /\ k.text.of = m.content
    /\ k.speaker = m.speaker
    /\ k.iteration = m.iteration

\* The statements ks are derived from entries of msgs, each carrying its
\* entry's speaker and round, in the order of the entries.
RECURSIVE InOrderOfEntries(_, _)
InOrderOfEntries(ks, msgs) ==
    IF ks = <<>> THEN TRUE
    ELSE IF msgs = <<>> THEN FALSE
    ELSE IF CarriesEntry(Head(ks), Head(msgs))
         THEN InOrderOfEntries(Tail(ks), Tail(msgs))
         ELSE InOrderOfEntries(ks, Tail(msgs))

\* C37: every KeyStatement of a returned result carries the round index of
\* the transcript entry it was derived from and that entry's speaker, and
\* the key statements are in the same relative order as their entries.
C37_StatementCarriesEntryRound ==
    pc = "done" =>
        InOrderOfEntries(result[1].keyStatements, result[1].messages)

----------------------------------------------------------------------------
\* The entries extraction yields a statement for when it examines them.
MeaningfulEntries(msgs) ==
    SelectSeq(msgs, LAMBDA m : FirstSentenceLen(m.content) > KeyStatementMinLen)

\* C38: in a one-to-one run without USER, for every max_iterations >= 1,
\* even or odd, key-statement extraction examines every entry of the
\* transcript exactly once: the returned key statements are, one for one,
\* those of the entries whose first sentence is long enough to be kept; no
\* entry has two statements and none (of the last round in particular) is
\* left out.
C38_EveryEntryExaminedOnce ==
    (pc = "done" /\ format = ONE_TO_ONE /\ max_iterations >= 1 /\ ~has_user) =>
        LET ks == result[1].keyStatements
            kept == MeaningfulEntries(result[1].messages)
        IN  /\ Len(ks) = Len(kept)
            /\ \A i \in 1..Len(ks) :
                  /\ ks[i].text.of = kept[i].content
                  /\ ks[i].speaker = kept[i].speaker

----------------------------------------------------------------------------
\* C39: in a panel run, the moderator guidance of every panelist's call, in
\* every round, is the content of the first transcript entry: the
\* moderator's round-0 opening, or the placeholder text when the moderator
\* is USER.  It stays the same after a summary of the moderator has been
\* appended.
C39_GuidanceIsOpening ==
    (pc = "pn_recv_statement" /\ pending # <<>>) =>
        /\ pending[1].other = messages[1].content
        /\ messages[1].speaker = moderator.label
        /\ messages[1].iteration = 0
        /\ pending[1].other =
              (IF has_user_moderator
               THEN AwaitingModeratorOpening
               ELSE GenerateWithParams(replies[1], 1).text)

\* A panelist's call of round 3 is in flight after the moderator's summary of
\* round 2 was appended: the guidance is the opening, not the summary.
C39_Witness ==
    /\ pc = "pn_recv_statement"
    /\ pending # <<>>
    /\ iteration = 3
    /\ Len(participants) = 3
    /\ ~has_user_moderator
    /\ Len(messages) >= 6
    /\ messages[6].speaker = moderator.label
    /\ messages[6].iteration = 2
    /\ messages[6].content # messages[1].content
    /\ pending[1].other = messages[1].content

====
